---- MODULE Spec2Model ----
\* A model of lua-native: the LuaRuntime core (src/src/core/lua-runtime.cpp
\* and lua-runtime.h) and the LuaContext N-API layer with its async workers
\* (src/src/lua-native.cpp, src/src/lua-async-worker.h).
\*
\* The specifications share the variables below:
\*   SpecRefCount  the userdata ref-count table driven directly
\*   SpecUserdata  userdata blocks, globals and the collector
\*   SpecCo        coroutine creation and resumption
\*   SpecAsync     script executions on the host thread and on async workers
\*   SpecEntry     the LuaContext entry points and the workers in flight
\*   SpecConv      ToLuaValue and PushLuaValue on trees of values
\*   SpecHost      registration of host functions and calls through closures
\*   SpecStack     the depth of the main stack across the runtime operations
\*   SpecMove      handle objects: creation, moves, release, use
\*   SpecHandle    SpecMove with the defaulted copies
\*   SpecDown      destruction of a context while a worker shares the runtime
\*   SpecLib       construction with a selection of standard libraries
\*   SpecProp      property reads and writes on userdata from scripts
\*   SpecMeta      SetGlobalMetatable on globals of every kind
\*   SpecBoundary  exceptions of the core at the calls of the host
\*   SpecResult    what a host function's return gives its caller
\*   SpecTable     tables with a metatable, kept by reference
\*   SpecBalance   SpecUserdata with opaque userdata handles
\*   SpecMap       ToLuaValue on tables with colliding keys
\*   SpecRelease   SpecUserdata with ids handed out once
EXTENDS Integers, Sequences, FiniteSets, TLC

\* ---------------------------------------------------------------- bounds
MaxRefId == 2
MaxCount == 3
MaxReleases == 2
MaxBlocks == 2
MaxYields == 2
MaxLeftover == 2
MaxWorkers == 2
MaxUserdata == 1
MaxKey == 3
MaxLen == 2
MaxOver == 1
MaxFns == 2
MaxSlack == 2
MaxHandles == 3
MaxSlots == 2
MaxObjects == 2
MaxLibs == 2

\* ------------------------------------------------------ program constants
kMaxDepth == 100

RefIds == 1..MaxRefId
BlockIds == 1..MaxBlocks
Names == {"a", "b"}
WorkerIds == 1..MaxWorkers

VARIABLES
  userdata_ref_counts,   \* LuaRuntime::userdata_ref_counts_ : ref_id -> count
  userdata_gc_callback,  \* LuaRuntime::userdata_gc_callback_ is non-null
  released,              \* ref_id -> number of times the release callback ran
  blocks,                \* embedded-side userdata blocks
  globals,               \* global name -> block (0 is nil)
  host_handles,          \* LuaUserdataRef values the host holds
  thread,                \* the coroutine: its lua_State and the LuaThreadRef
  lastResult,            \* the CoroutineResult of the last ResumeCoroutine
  is_busy,               \* LuaContext::is_busy_
  async_mode,            \* LuaRuntime::async_mode_
  worker,                \* the async workers: position, script, promise
  host_functions,        \* the keys of LuaRuntime::host_functions_
  wrappers,              \* JS wrappers of embedded values the host holds
  next_userdata_id,      \* LuaContext::next_userdata_id_
  fault,                 \* the process has ended in undefined behaviour
  lastOp,                \* the operation the last step performed
  conv,                  \* a value conversion: its input and its outcome
  host_impl,             \* LuaRuntime::host_functions_ : name -> implementation
  lua_globals,           \* the host-function closure each global holds
  kept,                  \* the closure a script has stored away
  latest,                \* name -> the implementation registered last
  stack_top,             \* lua_gettop(L_): the depth of the main stack
  handles,               \* the handle objects (LuaFunctionRef and the like)
  registry,              \* registry slot -> the object it anchors (0 is free)
  next_object,           \* the next embedded object to be anchored
  context,               \* how far ~LuaContext has come
  property_handlers,     \* property_getter_ and property_setter_ are non-null
  pool,                  \* the worker that shares the runtime, on its thread
  L_,                    \* LuaRuntime::L_ : the interpreter, open or closed
  options,               \* the second argument of new LuaContext
  runtime,               \* LuaContext::runtime and the libraries it opened
  thrown,                \* what the constructor threw
  js_userdata,           \* LuaContext::js_userdata_ : ref_id -> entry
  global_table,          \* what each embedded global holds, with its metatable
  tables,                \* the embedded tables: metatable and fields
  table_global           \* the embedded table each global is bound to, or 0

vars == <<userdata_ref_counts, userdata_gc_callback, released, blocks,
          globals, host_handles, thread, lastResult, is_busy, async_mode,
          worker, host_functions, wrappers, next_userdata_id, fault,
          lastOp, conv, host_impl, lua_globals, kept, latest, stack_top,
          handles, registry, next_object, context, property_handlers, pool,
          L_, options, runtime, thrown, js_userdata, global_table, tables,
          table_global>>

refVars == <<userdata_ref_counts, userdata_gc_callback, released, blocks,
             globals, host_handles>>
coVars == <<thread, lastResult>>
asyncVars == <<is_busy, async_mode, worker, host_functions, wrappers,
               next_userdata_id, fault>>
convVars == <<conv>>
hostVars == <<host_impl, lua_globals, kept, latest>>
stackVars == <<stack_top>>
handleVars == <<handles, registry, next_object>>
downVars == <<context, property_handlers, pool, L_>>
libVars == <<options, runtime, thrown>>
propVars == <<js_userdata>>
moreVars == <<global_table, tables, table_global>>
coreVars == <<convVars, hostVars, stackVars, handleVars, downVars, libVars,
              propVars, moreVars>>
convOthers == <<hostVars, stackVars, handleVars, downVars, libVars, propVars,
                moreVars>>
hostOthers == <<convVars, stackVars, handleVars, downVars, libVars, propVars,
                moreVars>>
stackOthers == <<convVars, hostVars, handleVars, downVars, libVars, propVars,
                 moreVars>>
handleOthers == <<convVars, hostVars, stackVars, downVars, libVars, propVars,
                  moreVars>>
downOthers == <<convVars, hostVars, stackVars, libVars, propVars, moreVars>>
libOthers == <<convVars, hostVars, stackVars, handleVars, downVars, propVars,
               moreVars>>
propOthers == <<convVars, hostVars, stackVars, handleVars, downVars, libVars,
                moreVars>>

\* ------------------------------------------------------------ ref counts

\* The counter stored for ref_id, 0 when userdata_ref_counts_ has no entry.
Count(counts, ref_id) ==
  IF ref_id \in DOMAIN counts THEN counts[ref_id] ELSE 0

\* userdata_ref_counts_[ref_id]++ : a missing entry is value-initialised to 0.
IncrementUserdataRefCount(counts, ref_id) ==
  [i \in DOMAIN counts \cup {ref_id} |->
     IF i = ref_id
       THEN (IF ref_id \in DOMAIN counts THEN counts[ref_id] ELSE 0) + 1
       ELSE counts[i]]

\* A plausible slip: the comparison is strict, so a counter of zero is kept.
DecrementStrictCompare(counts, cb, ref_id) ==
  IF ref_id \in DOMAIN counts
    THEN IF counts[ref_id] - 1 < 0
           THEN [counts |-> [i \in DOMAIN counts \ {ref_id} |-> counts[i]],
                 fired  |-> IF cb THEN <<ref_id>> ELSE <<>>]
           ELSE [counts |-> [counts EXCEPT ![ref_id] = @ - 1],
                 fired  |-> <<>>]
    ELSE [counts |-> counts, fired |-> <<>>]

\* find; if present: --count <= 0 erases the entry and runs the callback.
\* The result carries the new table and the ids the callback was run for.
DecrementUserdataRefCount(counts, cb, ref_id) ==
  IF ref_id \in DOMAIN counts
    THEN IF counts[ref_id] - 1 <= 0
           THEN [counts |-> [i \in DOMAIN counts \ {ref_id} |-> counts[i]],
                 fired  |-> IF cb THEN <<ref_id>> ELSE <<>>]
           ELSE [counts |-> [counts EXCEPT ![ref_id] = @ - 1],
                 fired  |-> <<>>]
    ELSE [counts |-> counts, fired |-> <<>>]

\* The host's release callback: counted per id.
RunCallback(rel, fired) ==
  [i \in DOMAIN rel |->
     rel[i] + Cardinality({k \in DOMAIN fired : fired[k] = i})]

\* No coroutine has been created, and no Resume has been called.
NoThread == [status |-> "none", top |-> 0, body |-> <<>>, ref |-> FALSE]
NoResult == [status |-> "none", values |-> <<>>, error |-> "none",
             entered |-> FALSE, pre |-> "none", argsOk |-> TRUE,
             rstatus |-> "none", step |-> <<>>, collectOk |-> TRUE]

\* No async worker exists, and no call into the runtime has been made.
IdleWorker == [pc |-> "idle", script |-> [kind |-> "none", name |-> "none"],
               result |-> "none", promise |-> "none", settles |-> 0]
NoWorkers == [w \in WorkerIds |-> IdleWorker]
NoCall == [op |-> "none", where |-> "none", result |-> "none",
           reached |-> FALSE, script |-> [kind |-> "none", name |-> "none"],
           invoked |-> {}, mutated |-> FALSE, error |-> "none"]

NoBlocks == [b \in BlockIds |-> [ref_id |-> 0, proxy |-> FALSE, st |-> "free"]]
NoGlobals == [n \in Names |-> 0]

\* No conversion has been asked for.
NoConv == [op |-> "none"]

\* No host function is registered, and no global holds a closure.
FnNames == {"f", "g"}
Fns == 1..MaxFns
NoImpl == [n \in FnNames |-> 0]
NoClosure == [upvalue |-> "none", made_for |-> 0]
NoClosures == [n \in FnNames |-> NoClosure]

\* The context and its runtime after construction, but for lastOp.
ContextConstructed ==
  /\ userdata_ref_counts = <<>>
  /\ userdata_gc_callback = TRUE
  /\ released = [i \in RefIds |-> 0]
  /\ blocks = NoBlocks
  /\ globals = NoGlobals
  /\ host_handles = {}
  /\ thread = NoThread
  /\ lastResult = NoResult
  /\ is_busy = FALSE
  /\ async_mode = FALSE
  /\ worker = NoWorkers
  /\ host_functions = {}
  /\ wrappers = {}
  /\ next_userdata_id = 1
  /\ fault = FALSE

NoConversion == conv = NoConv
NoHostFunctions ==
  /\ host_impl = NoImpl
  /\ lua_globals = NoClosures
  /\ kept = NoClosure
  /\ latest = NoImpl

EmptyStack == stack_top = 0

\* No handle object exists, and no registry slot is taken.
LUA_NOREF == -2
HandleIds == 1..MaxHandles
Slots == 1..MaxSlots
NoHandle == [kind |-> "none", ref |-> LUA_NOREF, L |-> FALSE,
             opaque |-> FALSE, obj |-> 0]
NoHandles ==
  /\ handles = [h \in HandleIds |-> NoHandle]
  /\ registry = [s \in Slots |-> 0]
  /\ next_object = 1

\* The context stands, no worker shares its runtime, the interpreter is open.
NoPool == [pc |-> "none", id |-> 0]
NoTeardown ==
  /\ context = "constructed"
  /\ property_handlers = TRUE
  /\ pool = NoPool
  /\ L_ = "open"

\* new LuaContext(callbacks) with no options: a bare runtime, nothing thrown.
NoOptions == [kind |-> "absent", preset |-> "none", libraries |-> <<>>,
              strings |-> TRUE]
NoRuntime == [made |-> FALSE, libs |-> {}]
BareRuntime == [made |-> TRUE, libs |-> {}]
NothingThrown == <<>>
DefaultLibraries ==
  /\ options = NoOptions
  /\ runtime = BareRuntime
  /\ thrown = NothingThrown

\* js_userdata_ is empty. An entry holds the flags and the one property of
\* the host object the model follows.
NoEntry == [present |-> FALSE, readable |-> FALSE, writable |-> FALSE,
            object |-> 0]
NoUserdataEntries == js_userdata = [i \in RefIds |-> NoEntry]

NoMetatable == [set |-> FALSE, fields |-> {}]
Unbound == [kind |-> "nil", metatable |-> NoMetatable]
ObjectIds == 1..MaxObjects
TableFields == {"x", "y"}
NoTable == [made |-> FALSE, metatable |-> "none",
            fields |-> [k \in TableFields |-> 0]]
NoTables ==
  /\ global_table = [n \in Names |-> Unbound]
  /\ tables = [t \in ObjectIds |-> NoTable]
  /\ table_global = [n \in Names |-> 0]

\* The state after construction, but for lastOp.
Constructed ==
  /\ ContextConstructed
  /\ NoConversion
  /\ NoHostFunctions
  /\ EmptyStack
  /\ NoHandles
  /\ NoTeardown
  /\ DefaultLibraries
  /\ NoUserdataEntries
  /\ NoTables

InitRefCount ==
  /\ Constructed
  /\ lastOp = [op |-> "Init", id |-> 0, before |-> 0]

Increment(ref_id) ==
  /\ (ref_id \in DOMAIN userdata_ref_counts
        => userdata_ref_counts[ref_id] < MaxCount)
  /\ userdata_ref_counts' =
       IncrementUserdataRefCount(userdata_ref_counts, ref_id)
  /\ lastOp' = [op |-> "Increment", id |-> ref_id,
                before |-> Count(userdata_ref_counts, ref_id)]
  /\ UNCHANGED <<coreVars, userdata_gc_callback, released, blocks, globals,
                 host_handles, coVars, asyncVars>>

Decrement(ref_id) ==
  LET r == DecrementUserdataRefCount(userdata_ref_counts,
                                     userdata_gc_callback, ref_id)
  IN /\ released[ref_id] < MaxReleases
     /\ userdata_ref_counts' = r.counts
     /\ released' = RunCallback(released, r.fired)
     /\ lastOp' = [op |-> "Decrement", id |-> ref_id,
                   before |-> Count(userdata_ref_counts, ref_id)]
     /\ UNCHANGED <<coreVars, userdata_gc_callback, blocks, globals, host_handles,
                    coVars, asyncVars>>

NextRefCount ==
  \/ \E ref_id \in RefIds : Increment(ref_id)
  \/ \E ref_id \in RefIds : Decrement(ref_id)

SpecRefCount == InitRefCount /\ [][NextRefCount]_vars

\* C6 (ref-count protocol). On every step that is a Decrement of id, the
\* release callback runs for id exactly when id had a counter equal to one
\* (the step takes an existing counter to zero), it runs once, and the
\* counter is then erased; a larger counter drops by one and nothing runs; a
\* Decrement of an id with no counter changes nothing and creates no counter.
\* An Increment adds one (creating the counter at one) and runs nothing, so n
\* Increments need n Decrements. No stored counter is ever below one.
C6_RefCountProtocol ==
  [][ /\ \A i \in DOMAIN userdata_ref_counts' : userdata_ref_counts'[i] >= 1
      /\ \A id \in RefIds :
           /\ (lastOp'.op = "Decrement" /\ lastOp'.id = id) =>
                /\ (released'[id] = released[id] + 1
                      <=> Count(userdata_ref_counts, id) = 1)
                /\ (released'[id] # released[id] + 1
                      => released'[id] = released[id])
                /\ (Count(userdata_ref_counts, id) = 1
                      => id \notin DOMAIN userdata_ref_counts')
                /\ (Count(userdata_ref_counts, id) > 1
                      => Count(userdata_ref_counts', id)
                           = Count(userdata_ref_counts, id) - 1)
                /\ (id \notin DOMAIN userdata_ref_counts
                      => /\ userdata_ref_counts' = userdata_ref_counts
                         /\ released' = released)
                /\ \A j \in RefIds \ {id} :
                     /\ released'[j] = released[j]
                     /\ Count(userdata_ref_counts', j)
                          = Count(userdata_ref_counts, j)
           /\ (lastOp'.op = "Increment" /\ lastOp'.id = id) =>
                /\ Count(userdata_ref_counts', id)
                     = Count(userdata_ref_counts, id) + 1
                /\ released' = released
    ]_vars

\* A Decrement found a counter of one: the release ran for the second time
\* for that id and the counter is gone, while another id still holds two.
C6_Witness ==
  /\ lastOp.op = "Decrement"
  /\ lastOp.before = 1
  /\ released[lastOp.id] = 2
  /\ lastOp.id \notin DOMAIN userdata_ref_counts
  /\ \E j \in RefIds \ {lastOp.id} : Count(userdata_ref_counts, j) = 2

\* ------------------------------------------------ userdata blocks and GC

\* A block is un-finalized from its creation until its __gc has run.
Unfinalized(blks, ref_id) ==
  {b \in BlockIds : blks[b].ref_id = ref_id /\ blks[b].st \in {"live", "garbage"}}

Garbage(blks) == {b \in BlockIds : blks[b].st = "garbage"}

\* lua_newuserdata returns a fresh block.
NewBlock(blks) ==
  CHOOSE b \in BlockIds :
    /\ blks[b].st = "free"
    /\ \A c \in BlockIds : c < b => blks[c].st # "free"

\* A plausible slip: the finalizer does not find the runtime and leaves the
\* counter alone.
UserdataGCNoRuntime(counts, cb, block) ==
  [counts |-> counts, fired |-> <<>>]

\* __gc of one block: the block carries its ref_id, the runtime is found in
\* the registry, and the counter of that id is decremented.
UserdataGC(counts, cb, block) ==
  DecrementUserdataRefCount(counts, cb, block.ref_id)

\* The collector runs the finalizers of the blocks in G, one after another.
RECURSIVE FinalizeBlocks(_, _, _, _)
FinalizeBlocks(counts, cb, blks, G) ==
  IF G = {} THEN [counts |-> counts, fired |-> <<>>]
  ELSE LET g == CHOOSE x \in G : TRUE
           r == UserdataGC(counts, cb, blks[g])
           rest == FinalizeBlocks(r.counts, cb, blks, G \ {g})
       IN [counts |-> rest.counts, fired |-> r.fired \o rest.fired]

\* A finalized block is freed: nothing of it remains but that it is spent.
MarkFinalized(blks, G) ==
  [b \in BlockIds |->
     IF b \in G THEN [ref_id |-> 0, proxy |-> FALSE, st |-> "finalized"]
     ELSE blks[b]]

\* lua_setglobal(name): the block the name was bound to becomes unreachable.
Unbind(blks, glob, name) ==
  [b \in BlockIds |-> IF glob[name] = b /\ blks[b].st = "live"
                        THEN [blks[b] EXCEPT !.st = "garbage"]
                        ELSE blks[b]]

\* The body shared by CreateUserdataGlobal and CreateProxyUserdataGlobal:
\*   lua_newuserdata   allocates the block; an allocation is a collector
\*                     step, during which the finalizers of the blocks in G
\*                     (already unreachable) may run
\*   luaL_setmetatable
\*   lua_setglobal     the old value of the global becomes unreachable
\*   IncrementUserdataRefCount(ref_id)
CreateUserdataBlock(name, ref_id, proxy, G) ==
  LET nb == NewBlock(blocks)
      fin == FinalizeBlocks(userdata_ref_counts, userdata_gc_callback,
                            blocks, G)
      b1 == [MarkFinalized(blocks, G) EXCEPT
               ![nb] = [ref_id |-> ref_id, proxy |-> proxy, st |-> "live"]]
      b2 == Unbind(b1, globals, name)
  IN /\ \E b \in BlockIds : blocks[b].st = "free"
     /\ G \subseteq Garbage(blocks)
     /\ blocks' = b2
     /\ globals' = [globals EXCEPT ![name] = nb]
     /\ userdata_ref_counts' = IncrementUserdataRefCount(fin.counts, ref_id)
     /\ released' = RunCallback(released, fin.fired)
     /\ UNCHANGED <<coreVars, userdata_gc_callback, host_handles>>

CreateUserdataGlobal(name, ref_id, G) ==
  /\ CreateUserdataBlock(name, ref_id, FALSE, G)
  /\ lastOp' = [op |-> "CreateUserdataGlobal", id |-> ref_id,
                before |-> 0]
  /\ UNCHANGED <<coreVars, coVars, asyncVars>>

CreateProxyUserdataGlobal(name, ref_id, G) ==
  /\ CreateUserdataBlock(name, ref_id, TRUE, G)
  /\ lastOp' = [op |-> "CreateProxyUserdataGlobal", id |-> ref_id,
                before |-> 0]
  /\ UNCHANGED <<coreVars, coVars, asyncVars>>

\* GetGlobal(name) on a userdata of ours: ToLuaValue reads the block's id and
\* metatable and returns LuaUserdataRef(ref_id, proxy); no counter changes.
GetGlobalUserdata(name) ==
  /\ globals[name] # 0
  /\ host_handles' = host_handles \cup
       {[ref_id |-> blocks[globals[name]].ref_id,
         proxy |-> blocks[globals[name]].proxy]}
  /\ lastOp' = [op |-> "GetGlobal", id |-> blocks[globals[name]].ref_id,
                before |-> Count(userdata_ref_counts,
                                 blocks[globals[name]].ref_id)]
  /\ UNCHANGED <<coreVars, userdata_ref_counts, userdata_gc_callback, released,
                 blocks, globals, coVars, asyncVars>>

\* SetGlobal(name, v) with v a host-owned LuaUserdataRef. PushLuaValue:
\*   lua_newuserdata (a collector step, as above), luaL_setmetatable,
\*   IncrementUserdataRefCount(v.ref_id); then lua_setglobal(name).
SetGlobalUserdata(name, h, G) ==
  LET nb == NewBlock(blocks)
      fin == FinalizeBlocks(userdata_ref_counts, userdata_gc_callback,
                            blocks, G)
      b1 == [MarkFinalized(blocks, G) EXCEPT
               ![nb] = [ref_id |-> h.ref_id, proxy |-> h.proxy,
                        st |-> "live"]]
  IN /\ h \in host_handles
     /\ \E b \in BlockIds : blocks[b].st = "free"
     /\ G \subseteq Garbage(blocks)
     /\ userdata_ref_counts' =
          IncrementUserdataRefCount(fin.counts, h.ref_id)
     /\ released' = RunCallback(released, fin.fired)
     /\ blocks' = Unbind(b1, globals, name)
     /\ globals' = [globals EXCEPT ![name] = nb]
     /\ lastOp' = [op |-> "SetGlobal", id |-> h.ref_id,
                   before |-> 0]
     /\ UNCHANGED <<coreVars, userdata_gc_callback, host_handles, coVars, asyncVars>>

\* ExecuteScript("name = nil"): the block is no longer reachable.
ScriptAssignNil(name) ==
  /\ globals[name] # 0
  /\ blocks' = Unbind(blocks, globals, name)
  /\ globals' = [globals EXCEPT ![name] = 0]
  /\ lastOp' = [op |-> "AssignNil", id |-> blocks[globals[name]].ref_id,
                before |-> Count(userdata_ref_counts,
                                 blocks[globals[name]].ref_id)]
  /\ UNCHANGED <<coreVars, userdata_ref_counts, userdata_gc_callback, released,
                 host_handles, coVars, asyncVars>>

\* The collector finalizes one unreachable block (UserdataGC).
Collect(b) ==
  LET r == UserdataGC(userdata_ref_counts, userdata_gc_callback, blocks[b])
  IN /\ blocks[b].st = "garbage"
     /\ userdata_ref_counts' = r.counts
     /\ released' = RunCallback(released, r.fired)
     /\ blocks' = MarkFinalized(blocks, {b})
     /\ lastOp' = [op |-> "Collect", id |-> blocks[b].ref_id,
                   before |-> Count(userdata_ref_counts, blocks[b].ref_id)]
     /\ UNCHANGED <<coreVars, userdata_gc_callback, globals, host_handles, coVars, asyncVars>>

InitUserdata == InitRefCount

NextUserdata ==
  \/ \E name \in Names, ref_id \in RefIds, G \in SUBSET BlockIds :
       CreateUserdataGlobal(name, ref_id, G)
  \/ \E name \in Names, ref_id \in RefIds, G \in SUBSET BlockIds :
       CreateProxyUserdataGlobal(name, ref_id, G)
  \/ \E name \in Names : GetGlobalUserdata(name)
  \/ \E name \in Names, h \in host_handles, G \in SUBSET BlockIds :
       SetGlobalUserdata(name, h, G)
  \/ \E name \in Names : ScriptAssignNil(name)
  \/ \E b \in BlockIds : Collect(b)

SpecUserdata == InitUserdata /\ [][NextUserdata]_vars

\* C7 (shared counter across aliases). A step in which the release callback
\* runs for an id leaves no un-finalized block carrying that id, whatever the
\* interleaving of finalizers with block creation; and the finalization of
\* the last un-finalized block of an id runs the callback for it.
C7_SharedCounter ==
  [][ \A id \in RefIds :
        /\ released'[id] > released[id] => Unfinalized(blocks', id) = {}
        /\ (lastOp'.op = "Collect" /\ lastOp'.id = id
              /\ Unfinalized(blocks', id) = {})
             => released'[id] = released[id] + 1
    ]_vars

\* ------------------------------------------------------------ coroutines

\* A value is represented by its nesting: 0 is a scalar, d > 0 is an
\* aggregate whose only element is a value of nesting d - 1, so that its
\* deepest element is visited at depth d.
ValueLists == {<<>>, <<0>>, <<kMaxDepth>>, <<kMaxDepth + 1>>,
               <<0, kMaxDepth + 1>>}
ArgLists == {<<>>, <<0>>, <<kMaxDepth + 1>>, <<0, kMaxDepth + 1>>}

\* The steps a coroutine body can take when it is resumed.
Yields == [kind : {"yield"}, vals : ValueLists \ {<<0>>}]
Finals == [kind : {"return"}, vals : {<<>>, <<0>>, <<kMaxDepth + 1>>}]
            \cup {[kind |-> "error", vals |-> <<>>]}

RECURSIVE BodiesOf(_)
BodiesOf(n) ==
  IF n = 0 THEN {<<f>> : f \in Finals}
  ELSE BodiesOf(n - 1)
         \cup {<<y>> \o b : y \in Yields,
                            b \in {c \in BodiesOf(n - 1) : Len(c) = n}}
Bodies == BodiesOf(MaxYields)

\* The depths at which a conversion entered at `depth` visits a value of
\* nesting v: the value itself, then one level deeper per enclosed element.
Visits(v, depth) == {depth + k : k \in 0..v}

\* ToLuaValue(L, index, depth) on a value of nesting v: every visit first
\* checks depth > kMaxDepth and throws; otherwise the value is rebuilt level
\* by level. StackGuard restores the stack on both paths.
ToLuaValue(v, depth) ==
  IF \E d \in Visits(v, depth) : d > kMaxDepth
    THEN [ok |-> FALSE, value |-> 0]
    ELSE [ok |-> TRUE, value |-> Cardinality(Visits(v, depth)) - 1]

\* PushLuaValue(L, value, depth) on a value of nesting v: `left` is the
\* number of slots it leaves on the stack. On success that is the one slot
\* of the value; when a visit throws, the table created by each earlier
\* visit is still there.
PushLuaValue(v, depth) ==
  IF \E d \in Visits(v, depth) : d > kMaxDepth
    THEN [ok |-> FALSE,
          left |-> Cardinality({d \in Visits(v, depth) : d <= kMaxDepth})]
    ELSE [ok |-> TRUE, left |-> 1]

\* for (const auto& arg : args) PushLuaValue(thread, arg): stops at the
\* first argument that throws.
RECURSIVE PushArgs(_)
PushArgs(args) ==
  IF args = <<>> THEN [ok |-> TRUE, left |-> 0]
  ELSE LET h == PushLuaValue(Head(args), 0)
       IN IF ~h.ok THEN [ok |-> FALSE, left |-> h.left]
          ELSE LET r == PushArgs(Tail(args))
               IN [ok |-> r.ok, left |-> r.left + 1]

\* for i in 1..nresults: values.push_back(ToLuaValue(thread, i)).
RECURSIVE CollectValues(_)
CollectValues(vals) ==
  IF vals = <<>> THEN [ok |-> TRUE, values |-> <<>>]
  ELSE LET h == ToLuaValue(Head(vals), 0)
       IN IF ~h.ok THEN [ok |-> FALSE, values |-> <<>>]
          ELSE LET r == CollectValues(Tail(vals))
               IN [ok |-> r.ok,
                   values |-> IF r.ok THEN <<h.value>> \o r.values ELSE <<>>]

\* One step of the body: it yields, returns or raises. The values it yields
\* or returns are what is left on the coroutine's stack (an error leaves the
\* error object).
RunStep(th) ==
  LET st == Head(th.body)
  IN IF st.kind = "yield"
       THEN [th |-> [th EXCEPT !.status = "YIELD", !.top = Len(st.vals),
                               !.body = Tail(th.body)],
             rstatus |-> "YIELD", step |-> <<st>>]
     ELSE IF st.kind = "return"
       THEN [th |-> [th EXCEPT !.status = "OK", !.top = Len(st.vals),
                               !.body = <<>>],
             rstatus |-> "OK", step |-> <<st>>]
     ELSE [th |-> [th EXCEPT !.status = "ERR", !.top = 1, !.body = <<>>],
           rstatus |-> "ERR", step |-> <<st>>]

\* lua_resume(thread, L, nargs). A coroutine that has not started calls the
\* value below its nargs arguments: that is the function CreateCoroutine
\* moved to slot 1 unless earlier pushes left slots above it, in which case
\* the call raises. A yielded coroutine continues with the top nargs values
\* as the results of its yield.
lua_resume(th, nargs) ==
  IF th.status = "OK" /\ th.top - nargs # 1
    THEN [th |-> [th EXCEPT !.status = "ERR", !.top = 1, !.body = <<>>],
          rstatus |-> "ERR", step |-> <<>>]
    ELSE RunStep(th)

DeadResult(msg, pre) ==
  [status |-> "Dead", values |-> <<>>, error |-> msg, entered |-> FALSE,
   pre |-> pre, argsOk |-> TRUE, rstatus |-> "none", step |-> <<>>,
   collectOk |-> TRUE]

\* GetCoroutineStatus(threadRef).
GetCoroutineStatus(th) ==
  IF ~th.ref THEN "Dead"
  ELSE IF th.status = "YIELD" THEN "Suspended"
  ELSE IF th.status = "OK"
    THEN (IF th.top = 0 THEN "Dead" ELSE "Suspended")
  ELSE "Dead"

\* A plausible slip: a normal completion is classified like a yield.
ClassifyCompletionAsSuspended(r, pre) ==
  LET n == r.th.top
      vals == IF r.step = <<>> THEN <<>> ELSE r.step[1].vals
      c == CollectValues(vals)
  IN IF r.rstatus \in {"YIELD", "OK"}
       THEN [th |-> [r.th EXCEPT !.top = @ - n],
             res |-> [status |-> IF c.ok THEN "Suspended" ELSE "Dead",
                      values |-> c.values,
                      error |-> IF c.ok THEN "none" ELSE "nesting depth",
                      entered |-> TRUE, pre |-> pre, argsOk |-> TRUE,
                      rstatus |-> r.rstatus, step |-> r.step,
                      collectOk |-> c.ok]]
     ELSE [th |-> [r.th EXCEPT !.top = @ - 1],
           res |-> [status |-> "Dead", values |-> <<>>,
                    error |-> "lua error", entered |-> TRUE, pre |-> pre,
                    argsOk |-> TRUE, rstatus |-> r.rstatus, step |-> r.step,
                    collectOk |-> TRUE]]

\* The classification made by ResumeCoroutine after lua_resume returned r:
\*   LUA_YIELD  Suspended; collect the nresults values, pop them; if a
\*              ToLuaValue throws: values cleared, popped, status Dead, error
\*   LUA_OK     Dead; collect and pop the same way; if a ToLuaValue throws:
\*              values cleared, popped, error
\*   otherwise  Dead, error = lua_tostring(thread, -1), pop 1
ClassifyResume(r, pre) ==
  LET n == r.th.top
      vals == IF r.step = <<>> THEN <<>> ELSE r.step[1].vals
      c == CollectValues(vals)
  IN IF r.rstatus = "YIELD"
       THEN [th |-> [r.th EXCEPT !.top = @ - n],
             res |-> [status |-> IF c.ok THEN "Suspended" ELSE "Dead",
                      values |-> c.values,
                      error |-> IF c.ok THEN "none" ELSE "nesting depth",
                      entered |-> TRUE, pre |-> pre, argsOk |-> TRUE,
                      rstatus |-> r.rstatus, step |-> r.step,
                      collectOk |-> c.ok]]
     ELSE IF r.rstatus = "OK"
       THEN [th |-> [r.th EXCEPT !.top = @ - n],
             res |-> [status |-> "Dead",
                      values |-> c.values,
                      error |-> IF c.ok THEN "none" ELSE "nesting depth",
                      entered |-> TRUE, pre |-> pre, argsOk |-> TRUE,
                      rstatus |-> r.rstatus, step |-> r.step,
                      collectOk |-> c.ok]]
     ELSE [th |-> [r.th EXCEPT !.top = @ - 1],
           res |-> [status |-> "Dead", values |-> <<>>,
                    error |-> "lua error", entered |-> TRUE, pre |-> pre,
                    argsOk |-> TRUE, rstatus |-> r.rstatus, step |-> r.step,
                    collectOk |-> TRUE]]

\* ResumeCoroutine(threadRef, args): the new state of the coroutine and the
\* CoroutineResult. The result also records what the call did (entered:
\* lua_resume was called; rstatus, step: what lua_resume returned; argsOk,
\* collectOk: whether the marshalling succeeded; pre: the status before).
ResumeCoroutine(th, args) ==
  LET pre == GetCoroutineStatus(th)
      p == PushArgs(args)
  IN IF ~th.ref
       THEN [th |-> th, res |-> DeadResult("Invalid coroutine thread", pre)]
     ELSE IF th.status \notin {"OK", "YIELD"}
       THEN [th |-> th, res |-> DeadResult("Coroutine is dead", pre)]
     ELSE IF th.status = "OK" /\ th.top = 0
       THEN [th |-> th, res |-> DeadResult("Coroutine has finished", pre)]
     ELSE IF ~p.ok
       THEN [th |-> [th EXCEPT !.top = @ + p.left],
             res |-> [DeadResult("Error converting coroutine arguments", pre)
                        EXCEPT !.argsOk = FALSE]]
     ELSE ClassifyResume(
            lua_resume([th EXCEPT !.top = @ + Len(args)], Len(args)), pre)

\* CreateCoroutine(funcRef): lua_newthread, luaL_ref, and the function is
\* moved to the new thread's stack. `body` is what the function does.
CreateCoroutine(body) ==
  /\ thread.status = "none"
  /\ thread' = [status |-> "OK", top |-> 1, body |-> body, ref |-> TRUE]
  /\ lastResult' = NoResult
  /\ lastOp' = [op |-> "CreateCoroutine", id |-> 1, before |-> 0]
  /\ UNCHANGED <<coreVars, refVars, asyncVars>>

Resume(args) ==
  LET r == ResumeCoroutine(thread, args)
  IN /\ thread.status # "none"
     /\ r.th.top <= MaxLeftover * (kMaxDepth + 2)
     /\ thread' = r.th
     /\ lastResult' = r.res
     /\ lastOp' = [op |-> "Resume", id |-> 1, before |-> 0]
     /\ UNCHANGED <<coreVars, refVars, asyncVars>>

\* LuaThreadRef::release(): luaL_unref, ref = LUA_NOREF, thread = nullptr.
ReleaseThread ==
  /\ thread.status # "none"
  /\ thread.ref
  /\ thread' = [thread EXCEPT !.ref = FALSE]
  /\ lastOp' = [op |-> "ReleaseThread", id |-> 1, before |-> 0]
  /\ UNCHANGED <<coreVars, refVars, lastResult, asyncVars>>

InitCo == InitRefCount

NextCo ==
  \/ \E body \in Bodies : CreateCoroutine(body)
  \/ \E args \in ArgLists : Resume(args)
  \/ ReleaseThread

SpecCo == InitCo /\ [][NextCo]_vars

\* What lua_resume left for the result: the values of the step it drove.
StepValues(res) == IF res.step = <<>> THEN <<>> ELSE res.step[1].vals

\* C8 (Dead is terminal). Once the coroutine is Dead (GetCoroutineStatus
\* says so, or the last Resume reported Dead), a Resume returns Dead with an
\* error and no values, does not call lua_resume, and leaves the coroutine
\* as it was.
C8_DeadIsTerminal ==
  [][ (/\ thread.status # "none"
       /\ (GetCoroutineStatus(thread) = "Dead" \/ lastResult.status = "Dead")
       /\ lastOp'.op = "Resume")
      => (/\ lastResult'.status = "Dead"
          /\ lastResult'.error # "none"
          /\ ~lastResult'.entered
          /\ lastResult'.values = <<>>
          /\ thread' = thread)
    ]_vars

C10_MarshalFailureKills ==
  [][ /\ (lastOp'.op = "Resume" /\ ~lastResult'.collectOk)
         => /\ lastResult'.status = "Dead"
            /\ lastResult'.values = <<>>
            /\ lastResult'.error # "none"
            /\ GetCoroutineStatus(thread') = "Dead"
      /\ (lastOp'.op = "Resume" /\ ~lastResult.collectOk)
         => /\ lastResult'.status = "Dead"
            /\ ~lastResult'.entered
            /\ lastResult'.error \in {"Coroutine is dead",
                                      "Coroutine has finished",
                                      "Invalid coroutine thread"}
    ]_vars

\* ------------------------------------- LuaContext and the async workers

AsyncModeError == "JS callbacks are not available in async mode"
BusyError == "Lua context is busy with an async operation"

\* The names under which host functions are kept in host_functions_:
\* set_global registers "f" (RegisterFunction), set_metatable stores
\* "__mt_1___call" and register_module "__module_1_g" (StoreHostFunction).
HostNames == {"f", "__mt_1___call", "__module_1_g"}

\* The chunks a caller hands to execute_script and its siblings:
\*   pure          return 1
\*   call n        return <the closure of host function n>()
\*   index         return a.x        a: the global set by set_userdata
\*   newindex      a.x = 1
\*   drop          a = nil  collectgarbage()
\*   error         error("e")
\*   errorObject   error({})
\*   huge          return string.rep("x", 2^30)
Scripts ==
  [kind : {"pure", "index", "newindex", "drop", "error", "errorObject",
           "huge"}, name : {"none"}]
  \cup [kind : {"call"}, name : HostNames]

\* A plausible slip: the bridge without the async-mode test.
LuaCallHostFunctionUnchecked(func_name, funcs, async) ==
  IF func_name \notin funcs
    THEN [invoked |-> FALSE, error |-> "Host function not found"]
    ELSE [invoked |-> TRUE, error |-> "none"]

\* The bridge every host-function closure runs: look the name up, refuse in
\* async mode, otherwise invoke the host implementation.
LuaCallHostFunction(func_name, funcs, async) ==
  IF func_name \notin funcs
    THEN [invoked |-> FALSE, error |-> "Host function not found"]
    ELSE IF async
      THEN [invoked |-> FALSE, error |-> AsyncModeError]
      ELSE [invoked |-> TRUE, error |-> "none"]

\* __index of a proxy userdata: the property getter is called.
UserdataIndex(block) == IF block.proxy THEN {"getter"} ELSE {}

\* __newindex of a proxy userdata: the property setter is called.
UserdataNewIndex(block) == IF block.proxy THEN {"setter"} ELSE {}

\* What running a chunk under lua_pcall does. raised is "no", "string" (the
\* error object is a message) or "object" (it is not); values is what the
\* chunk left on the stack.
Chunk(raised, error, values, invoked, counts, blks, glob, fired, mutated) ==
  [raised |-> raised, error |-> error, values |-> values,
   invoked |-> invoked, counts |-> counts, blks |-> blks, glob |-> glob,
   fired |-> fired, mutated |-> mutated]

lua_pcall(script, async, funcs, counts, cb, blks, glob) ==
  LET Quiet(raised, error, values, invoked) ==
        Chunk(raised, error, values, invoked, counts, blks, glob, <<>>,
              FALSE)
  IN CASE script.kind = "pure" -> Quiet("no", "none", "number", {})
       [] script.kind = "huge" -> Quiet("no", "none", "huge", {})
       [] script.kind = "error" -> Quiet("string", "e", "empty", {})
       [] script.kind = "errorObject" -> Quiet("object", "none", "empty", {})
       [] script.kind = "call" ->
            IF script.name \notin funcs
              THEN Quiet("string", "attempt to call a nil value", "empty", {})
              ELSE LET c == LuaCallHostFunction(script.name, funcs, async)
                   IN IF c.invoked
                        THEN Quiet("no", "none", "number", {"function"})
                        ELSE Quiet("string", c.error, "empty", {})
       [] script.kind = "index" ->
            IF glob["a"] = 0
              THEN Quiet("string", "attempt to index a nil value", "empty",
                         {})
              ELSE Quiet("no", "none", "number",
                         UserdataIndex(blks[glob["a"]]))
       [] script.kind = "newindex" ->
            IF glob["a"] = 0
              THEN Quiet("string", "attempt to index a nil value", "empty",
                         {})
              ELSE Quiet("no", "none", "empty",
                         UserdataNewIndex(blks[glob["a"]]))
       [] OTHER ->
            LET b1 == Unbind(blks, glob, "a")
                G == Garbage(b1)
                fin == FinalizeBlocks(counts, cb, b1, G)
            IN Chunk("no", "none", "empty",
                     IF fin.fired # <<>> THEN {"release"} ELSE {},
                     fin.counts, MarkFinalized(b1, G),
                     [glob EXCEPT !["a"] = 0], fin.fired, G # {})

\* ExecuteScript / ExecuteFile: load, pcall, collect the results. A raised
\* message is the result; a raised object that is not a message gives
\* lua_tostring == NULL, from which std::string cannot be built.
ExecuteScript(script, async, funcs, counts, cb, blks, glob) ==
  LET r == lua_pcall(script, async, funcs, counts, cb, blks, glob)
  IN [r EXCEPT !.raised = CASE r.raised = "no" -> "values"
                            [] r.raised = "string" -> "error"
                            [] OTHER -> "threw"]

\* CoreToNapi of a result: creating the host value can fail (a string beyond
\* the engine's limit), and then it throws.
CoreToNapi(value) == value # "huge"

InFlight == {w \in WorkerIds : worker[w].pc # "idle"}
FreeSlot == CHOOSE w \in WorkerIds :
              /\ worker[w].pc = "idle"
              /\ \A v \in WorkerIds : v < w => worker[v].pc # "idle"

\* The record of a call made on the host thread.
HostCall(ep, result, reached) ==
  [NoCall EXCEPT !.op = ep, !.where = "host", !.result = result,
                 !.reached = reached]

\* if (is_busy_) { throw the busy error; return; }
Busy(ep) ==
  /\ is_busy
  /\ lastOp' = [HostCall(ep, "busy", FALSE) EXCEPT !.error = BusyError]
  /\ UNCHANGED <<coreVars, refVars, coVars, asyncVars>>

\* The call went through to the runtime.
Through(ep) ==
  /\ ~is_busy
  /\ lastOp' = HostCall(ep, "ok", TRUE)

\* What the caller of a synchronous entry point gets for a script result.
ResultOf(r) ==
  CASE r.raised = "threw" -> "threw"
    [] r.raised = "error" -> "error"
    [] OTHER -> IF r.values = "empty" \/ CoreToNapi(r.values)
                  THEN "ok" ELSE "error"

\* The part execute_script and execute_file share once past the busy test:
\* the script runs on the host thread. ub is what building a std::string
\* from NULL does: the library throws, or the process ends.
SyncExecute(ep, s, ub) ==
  LET r == ExecuteScript(s, async_mode, host_functions, userdata_ref_counts,
                         userdata_gc_callback, blocks, globals)
  IN /\ ~is_busy
     /\ r.raised # "threw" => ub = "throws"
     /\ fault' = (r.raised = "threw" /\ ub = "faults")
     /\ userdata_ref_counts' = r.counts
     /\ blocks' = r.blks
     /\ globals' = r.glob
     /\ released' = RunCallback(released, r.fired)
     /\ lastOp' = [HostCall(ep, ResultOf(r), TRUE) EXCEPT
                     !.script = s, !.invoked = r.invoked,
                     !.mutated = r.mutated, !.error = r.error]
     /\ UNCHANGED <<coreVars, userdata_gc_callback, host_handles, coVars, is_busy,
                    async_mode, worker, host_functions, wrappers,
                    next_userdata_id>>

execute_script(s, ub) ==
  /\ ~fault
  /\ Busy("execute_script") \/ SyncExecute("execute_script", s, ub)

execute_file(s, ub) ==
  /\ ~fault
  /\ Busy("execute_file") \/ SyncExecute("execute_file", s, ub)

\* An entry point whose work leaves the state tracked here as it was.
Plain(ep) ==
  \/ Busy(ep)
  \/ /\ Through(ep)
     /\ UNCHANGED <<coreVars, refVars, coVars, asyncVars>>

\* An entry point that adds a host function under name n.
Registers(ep, n) ==
  \/ Busy(ep)
  \/ /\ Through(ep)
     /\ host_functions' = host_functions \cup {n}
     /\ UNCHANGED <<coreVars, refVars, coVars, is_busy, async_mode, worker,
                    wrappers, next_userdata_id, fault>>

\* set_global(name, fn): RegisterFunction.
set_global ==
  /\ ~fault
  /\ Registers("set_global", "f")

\* set_metatable(name, {__call = fn}): StoreHostFunction, SetGlobalMetatable.
set_metatable ==
  /\ ~fault
  /\ Registers("set_metatable", "__mt_1___call")

\* register_module(name, {g = fn}): StoreHostFunction, RegisterModuleTable.
register_module ==
  /\ ~fault
  /\ Registers("register_module", "__module_1_g")

\* get_global(name): the value comes back wrapped; a function becomes a JS
\* function bound to LuaFunctionCallbackStatic, a table with a metatable
\* (one exists once set_metatable has run) a Proxy with the TableRef traps.
get_global(kind) ==
  /\ ~fault
  /\ \/ Busy("get_global")
     \/ /\ Through("get_global")
        /\ kind = "table" => "__mt_1___call" \in host_functions
        /\ wrappers' = wrappers \cup {kind}
        /\ UNCHANGED <<coreVars, refVars, coVars, is_busy, async_mode, worker,
                       host_functions, next_userdata_id, fault>>

\* set_userdata("a", object, {readable, writable}): ref_id =
\* next_userdata_id_++, then CreateProxyUserdataGlobal.
set_userdata(G) ==
  /\ ~fault
  /\ \/ Busy("set_userdata")
     \/ /\ Through("set_userdata")
        /\ next_userdata_id <= MaxUserdata
        /\ CreateUserdataBlock("a", next_userdata_id, TRUE, G)
        /\ next_userdata_id' = next_userdata_id + 1
        /\ UNCHANGED <<coreVars, coVars, is_busy, async_mode, worker, host_functions,
                       wrappers, fault>>

add_search_path ==
  /\ ~fault
  /\ Plain("add_search_path")
compile ==
  /\ ~fault
  /\ Plain("compile")
compile_file ==
  /\ ~fault
  /\ Plain("compile_file")
load_bytecode ==
  /\ ~fault
  /\ Plain("load_bytecode")
create_coroutine ==
  /\ ~fault
  /\ Plain("create_coroutine")
resume ==
  /\ ~fault
  /\ Plain("resume")


\* A plausible slip: the start does not test the flag.
AsyncStartUnchecked(busy, valid) ==
  IF ~valid THEN [result |-> "typeerror", start |-> FALSE]
  ELSE [result |-> "ok", start |-> TRUE]

\* ExecuteScriptAsync / ExecuteFileAsync up to the queueing: the busy test,
\* the argument test, then is_busy_ = true.
AsyncStart(busy, valid) ==
  IF busy THEN [result |-> "busy", start |-> FALSE]
  ELSE IF ~valid THEN [result |-> "typeerror", start |-> FALSE]
  ELSE [result |-> "ok", start |-> TRUE]

StartWorker(ep, s, valid) ==
  LET r == AsyncStart(is_busy, valid)
  IN /\ r.start => \E w \in WorkerIds : worker[w].pc = "idle"
     /\ is_busy' = (is_busy \/ r.start)
     /\ worker' = IF r.start
                    THEN [worker EXCEPT ![FreeSlot] =
                            [pc |-> "queued", script |-> s,
                             result |-> "none", promise |-> "pending",
                             settles |-> 0]]
                    ELSE worker
     /\ lastOp' = [HostCall(ep, r.result, FALSE) EXCEPT
                     !.error = IF r.result = "busy" THEN BusyError
                               ELSE "none"]
     /\ UNCHANGED <<coreVars, refVars, coVars, async_mode, host_functions, wrappers,
                    next_userdata_id, fault>>

execute_script_async(s, valid) ==
  /\ ~fault
  /\ StartWorker("execute_script_async", s, valid)

execute_file_async(s, valid) ==
  /\ ~fault
  /\ StartWorker("execute_file_async", s, valid)

\* A host-thread path with no busy test. While a worker is inside Execute
\* the two threads use the lua_State at once: the call either happens to be
\* serialised with the worker's, or the process ends.
Unguarded(ep, kind, race) ==
  /\ kind \in wrappers
  /\ race = "fault" => \E w \in WorkerIds : worker[w].pc = "running"
  /\ fault' = (race = "fault")
  /\ lastOp' = HostCall(ep, "ok", TRUE)
  /\ UNCHANGED <<coreVars, refVars, coVars, is_busy, async_mode, worker,
                 host_functions, wrappers, next_userdata_id>>

LuaFunctionCallbackStatic(race) ==
  /\ ~fault
  /\ Unguarded("LuaFunctionCallbackStatic", "function", race)

TableRefGetTrap(race) ==
  /\ ~fault
  /\ Unguarded("TableRefGetTrap", "table", race)
TableRefSetTrap(race) ==
  /\ ~fault
  /\ Unguarded("TableRefSetTrap", "table", race)
TableRefHasTrap(race) ==
  /\ ~fault
  /\ Unguarded("TableRefHasTrap", "table", race)
TableRefOwnKeysTrap(race) ==
  /\ ~fault
  /\ Unguarded("TableRefOwnKeysTrap", "table", race)

\* Execute(), first statement: SetAsyncMode(true). Runs on a pool thread.
WorkerBegin(w) ==
  /\ ~fault
  /\ worker[w].pc = "queued"
  /\ worker' = [worker EXCEPT ![w].pc = "running"]
  /\ async_mode' = TRUE
  /\ lastOp' = [NoCall EXCEPT !.op = "WorkerBegin", !.where = "worker"]
  /\ UNCHANGED <<coreVars, refVars, coVars, is_busy, host_functions, wrappers,
                 next_userdata_id, fault>>

\* Execute(), the rest: result_ = ExecuteScript(script_), and, unless that
\* threw, SetAsyncMode(false).
WorkerExecute(w, ub) ==
  LET r == ExecuteScript(worker[w].script, async_mode, host_functions,
                         userdata_ref_counts, userdata_gc_callback, blocks,
                         globals)
  IN /\ ~fault
     /\ worker[w].pc = "running"
     /\ r.raised # "threw" => ub = "throws"
     /\ fault' = (r.raised = "threw" /\ ub = "faults")
     /\ userdata_ref_counts' = r.counts
     /\ blocks' = r.blks
     /\ globals' = r.glob
     /\ released' = RunCallback(released, r.fired)
     /\ async_mode' = IF r.raised = "threw" THEN async_mode ELSE FALSE
     /\ worker' = [worker EXCEPT
                     ![w].pc = IF r.raised = "threw" THEN "threw" ELSE "done",
                     ![w].result = CASE r.raised = "threw" -> "threw"
                                     [] r.raised = "error" -> "error"
                                     [] OTHER -> r.values]
     /\ lastOp' = [NoCall EXCEPT
                     !.op = "WorkerExecute", !.where = "worker",
                     !.result = r.raised, !.reached = TRUE,
                     !.script = worker[w].script, !.invoked = r.invoked,
                     !.mutated = r.mutated, !.error = r.error]
     /\ UNCHANGED <<coreVars, userdata_gc_callback, host_handles, coVars, is_busy,
                    host_functions, wrappers, next_userdata_id>>

\* OnOK, on the host thread: ClearBusy, then reject with the message or
\* resolve with the converted values; a conversion that throws leaves the
\* promise as it is.
OnOK(w) ==
  LET settle == worker[w].result \in {"error", "empty"}
                  \/ CoreToNapi(worker[w].result)
  IN /\ ~fault
     /\ worker[w].pc = "done"
     /\ is_busy' = FALSE
     /\ worker' = [worker EXCEPT
                     ![w].pc = "idle",
                     ![w].script = IdleWorker.script,
                     ![w].result = "none",
                     ![w].promise = IF ~settle THEN @
                                    ELSE IF worker[w].result = "error"
                                      THEN "rejected" ELSE "resolved",
                     ![w].settles = IF settle THEN @ + 1 ELSE @]
     /\ lastOp' = [NoCall EXCEPT !.op = "OnOK", !.where = "host"]
     /\ UNCHANGED <<coreVars, refVars, coVars, async_mode, host_functions, wrappers,
                    next_userdata_id, fault>>

\* OnError, on the host thread: ClearBusy, then reject.
OnError(w) ==
  /\ ~fault
  /\ worker[w].pc = "threw"
  /\ is_busy' = FALSE
  /\ worker' = [worker EXCEPT ![w].pc = "idle",
                              ![w].script = IdleWorker.script,
                              ![w].result = "none",
                              ![w].promise = "rejected",
                              ![w].settles = @ + 1]
  /\ lastOp' = [NoCall EXCEPT !.op = "OnError", !.where = "host"]
  /\ UNCHANGED <<coreVars, refVars, coVars, async_mode, host_functions, wrappers,
                 next_userdata_id, fault>>

Undefined == {"throws", "faults"}
Races == {"serialised", "fault"}

\* The scripts the entry-point specification runs.
EntryScripts == {s \in Scripts : s.kind \in {"pure", "errorObject"}}

InitAsync ==
  /\ Constructed
  /\ lastOp = NoCall

\* Executions: scripts on the host thread and on workers, and what they can
\* reach (host functions, a proxy userdata).
NextAsync ==
  \/ \E s \in Scripts, ub \in Undefined : execute_script(s, ub)
  \/ \E s \in Scripts, valid \in BOOLEAN : execute_script_async(s, valid)
  \/ \E s \in Scripts, valid \in BOOLEAN : execute_file_async(s, valid)
  \/ set_global
  \/ set_metatable
  \/ register_module
  \/ \E G \in SUBSET BlockIds : set_userdata(G)
  \/ \E w \in WorkerIds : WorkerBegin(w)
  \/ \E w \in WorkerIds, ub \in Undefined : WorkerExecute(w, ub)
  \/ \E w \in WorkerIds : OnOK(w)
  \/ \E w \in WorkerIds : OnError(w)

SpecAsync == InitAsync /\ [][NextAsync]_vars

\* The pool runs a queued worker, and the event loop delivers its completion.
SpecAsyncFair ==
  /\ SpecAsync
  /\ \A w \in WorkerIds :
       /\ WF_vars(WorkerBegin(w))
       /\ WF_vars(\E ub \in Undefined : WorkerExecute(w, ub))
       /\ WF_vars(OnOK(w))
       /\ WF_vars(OnError(w))

InitEntry == InitAsync

\* Every entry point of LuaContext, the paths that have no busy test, and
\* the workers.
NextEntry ==
  \/ \E s \in EntryScripts, ub \in Undefined : execute_script(s, ub)
  \/ \E s \in EntryScripts, ub \in Undefined : execute_file(s, ub)
  \/ \E s \in EntryScripts, valid \in BOOLEAN : execute_script_async(s, valid)
  \/ \E s \in EntryScripts, valid \in BOOLEAN : execute_file_async(s, valid)
  \/ set_global
  \/ \E kind \in {"function", "table"} : get_global(kind)
  \/ \E G \in SUBSET BlockIds : set_userdata(G)
  \/ set_metatable
  \/ add_search_path
  \/ register_module
  \/ compile
  \/ compile_file
  \/ load_bytecode
  \/ create_coroutine
  \/ resume
  \/ \E race \in Races : LuaFunctionCallbackStatic(race)
  \/ \E race \in Races : TableRefGetTrap(race)
  \/ \E race \in Races : TableRefSetTrap(race)
  \/ \E race \in Races : TableRefHasTrap(race)
  \/ \E race \in Races : TableRefOwnKeysTrap(race)
  \/ \E w \in WorkerIds : WorkerBegin(w)
  \/ \E w \in WorkerIds, ub \in Undefined : WorkerExecute(w, ub)
  \/ \E w \in WorkerIds : OnOK(w)
  \/ \E w \in WorkerIds : OnError(w)

SpecEntry == InitEntry /\ [][NextEntry]_vars

\* ------------------------------------------------- claims on executions

\* The step ran a chunk: on the host thread or on a worker.
Executed(op) ==
  /\ op.op \in {"execute_script", "execute_file", "WorkerExecute"}
  /\ op.reached

\* C1 (exclusivity). In a step that runs a chunk while async_mode_ is set, a
\* call to a registered host function (a RegisterFunction global or a
\* StoreHostFunction closure) raises the async-mode error and the host
\* implementation is not invoked, and a chunk that makes no host call still
\* returns its values; in a step that runs the chunk with the flag clear the
\* same host function is invoked.
C1_Exclusivity ==
  [][ Executed(lastOp') =>
        /\ (/\ async_mode
            /\ lastOp'.script.kind = "call"
            /\ lastOp'.script.name \in host_functions)
           => /\ lastOp'.result = "error"
              /\ lastOp'.error = AsyncModeError
              /\ "function" \notin lastOp'.invoked
        /\ (async_mode /\ lastOp'.script.kind = "pure")
           => lastOp'.result \in {"ok", "values"}
        /\ (/\ ~async_mode
            /\ lastOp'.script.kind = "call"
            /\ lastOp'.script.name \in host_functions)
           => /\ lastOp'.result \in {"ok", "values"}
              /\ "function" \in lastOp'.invoked
    ]_vars

\* A worker ran a chunk that calls a registered StoreHostFunction closure,
\* and the call was refused with the async-mode error.
C1_Witness ==
  /\ lastOp.op = "WorkerExecute"
  /\ lastOp.script = [kind |-> "call", name |-> "__mt_1___call"]
  /\ "__mt_1___call" \in host_functions
  /\ lastOp.error = AsyncModeError
  /\ lastOp.invoked = {}

\* C2 (off-thread purity). A chunk run by a worker invokes no host callback
\* (host function, property getter or setter, release callback) and changes
\* no ref count.
C2_OffThreadPurity ==
  lastOp.where = "worker" => (lastOp.invoked = {} /\ ~lastOp.mutated)

\* C5 (busy release). Every async execution that was queued comes, unless
\* the process ends first, to a state where the busy flag is clear, the
\* worker is gone and its promise has been settled exactly once.
C5_BusyRelease ==
  \A w \in WorkerIds :
    (worker[w].pc = "queued")
      ~> \/ fault
         \/ (~is_busy /\ worker[w].pc = "idle" /\ worker[w].settles = 1)

\* ----------------------------------------------- claims on entry points

EntryPoints ==
  {"execute_script", "execute_file", "execute_script_async",
   "execute_file_async", "set_global", "get_global", "set_userdata",
   "set_metatable", "add_search_path", "register_module", "compile",
   "compile_file", "load_bytecode", "create_coroutine", "resume"}

\* C3 (busy exclusion). While is_busy_ is set, each of the fifteen entry
\* points fails with the busy error, does not reach the runtime and changes
\* nothing, the flag included; an async start succeeds only when the flag is
\* clear and no worker is in flight, and sets the flag in the same step, so
\* at most one worker is ever in flight; and a synchronous execution never
\* runs while a worker is in flight.
C3_BusyExclusion ==
  [][ /\ (is_busy /\ lastOp'.op \in EntryPoints)
         => /\ lastOp'.result = "busy"
            /\ lastOp'.error = BusyError
            /\ ~lastOp'.reached
            /\ UNCHANGED <<coreVars, refVars, coVars, asyncVars>>
      /\ (/\ lastOp'.op \in {"execute_script_async", "execute_file_async"}
          /\ lastOp'.result = "ok")
         => /\ ~is_busy
            /\ is_busy'
            /\ InFlight = {}
      /\ Cardinality(InFlight') <= 1
      /\ (lastOp'.op \in {"execute_script", "execute_file"}
            /\ lastOp'.reached)
         => InFlight = {}
    ]_vars

\* An async start was refused with the busy error while a worker was inside
\* Execute.
C3_Witness ==
  /\ lastOp.op = "execute_script_async"
  /\ lastOp.result = "busy"
  /\ is_busy
  /\ \E w \in WorkerIds : worker[w].pc = "running"

\* C4 (non-reentrancy). A call on the host thread that reaches the
\* interpreter is made only when no async execution is queued or running.
C4_NonReentrancy ==
  (lastOp.where = "host" /\ lastOp.reached)
    => \A w \in WorkerIds : worker[w].pc \notin {"queued", "running"}

\* ------------------------------------------------ value conversion, trees

\* Embedded-side values: what lua_type tells apart.
lua_nil == [kind |-> "nil"]
lua_boolean(b) == [kind |-> "boolean", b |-> b]
lua_integer(n) == [kind |-> "integer", n |-> n]
lua_string(s) == [kind |-> "string", s |-> s]

\* Table keys.  A table is the sequence of its keys in the order lua_next
\* enumerates them, with the value stored under each.
IntKey(n) == [t |-> "integer", n |-> n, s |-> ""]
StrKey(s) == [t |-> "string", n |-> 0, s |-> s]
BoolKey(b) == [t |-> "boolean", n |-> 0, s |-> IF b THEN "true" ELSE "false"]
lua_table(order, val) == [kind |-> "table", order |-> order, val |-> val]

\* Host-side values: the alternatives of LuaValue::Variant without handles.
LuaValueNil == [kind |-> "nil"]
FromBool(b) == [kind |-> "bool", b |-> b]
FromInt64(i) == [kind |-> "int64", n |-> i]
FromString(s) == [kind |-> "string", s |-> s]
FromArray(arr) == [kind |-> "array", items |-> arr]
FromTable(tbl) == [kind |-> "map", fields |-> tbl]
DepthError == [kind |-> "error", what |-> "nesting depth"]

\* The loop of isSequentialArray: the i-th key enumerated is the integer i.
isSequentialArray(order) ==
  \A i \in 1..Len(order) : order[i].t = "integer" /\ order[i].n = i

\* lua_rawgeti: the value stored under the integer key i, nil when absent.
lua_rawgeti(tbl, i) ==
  IF \E p \in 1..Len(tbl.order) : tbl.order[p] = IntKey(i)
    THEN tbl.val[CHOOSE p \in 1..Len(tbl.order) : tbl.order[p] = IntKey(i)]
    ELSE lua_nil

\* lua_rawlen: a border of the table (key n present or n = 0, key n + 1
\* absent); the smallest one, the only one when the keys are 1..N.
lua_rawlen(tbl) ==
  CHOOSE n \in 0..Len(tbl.order) :
    /\ lua_rawgeti(tbl, n + 1) = lua_nil
    /\ \A m \in 1..n : lua_rawgeti(tbl, m) # lua_nil

\* lua_tostring of a key: an integer prints in decimal.
lua_tostring(key) == IF key.t = "integer" THEN ToString(key.n) ELSE key.s

\* The positions of the map branch that emplace a key: strings and numbers.
Emplaced(order) == {p \in 1..Len(order) : order[p].t \in {"string", "integer"}}

RECURSIVE ToLuaValueTree(_, _)
ToLuaValueTree(x, depth) ==
  IF depth > kMaxDepth THEN DepthError
  ELSE IF x.kind = "nil" THEN LuaValueNil
  ELSE IF x.kind = "integer" THEN FromInt64(x.n)
  ELSE IF x.kind = "boolean" THEN FromBool(x.b)
  ELSE IF x.kind = "string" THEN FromString(x.s)
  ELSE IF isSequentialArray(x.order)
    THEN LET arr == [i \in 1..lua_rawlen(x) |->
                       ToLuaValueTree(lua_rawgeti(x, i), depth + 1)]
         IN IF \E i \in DOMAIN arr : arr[i] = DepthError
              THEN DepthError ELSE FromArray(arr)
    ELSE LET ps == Emplaced(x.order)
             \* emplace keeps the first value stored under a key
             first(k) == CHOOSE p \in ps :
                           /\ lua_tostring(x.order[p]) = k
                           /\ \A q \in ps : lua_tostring(x.order[q]) = k
                                              => p <= q
             map == [k \in {lua_tostring(x.order[p]) : p \in ps} |->
                       ToLuaValueTree(x.val[first(k)], depth + 1)]
         IN IF \E k \in DOMAIN map : map[k] = DepthError
              THEN DepthError ELSE FromTable(map)

\* The orders lua_next can enumerate a key set in: the hash part of a table
\* is walked in node order, which follows no order of the keys.
Enumerations(K) ==
  {o \in [1..Cardinality(K) -> K] : \A i, j \in DOMAIN o : o[i] = o[j] => i = j}

\* The value a script stores under a key: one that tells the keys apart.
ValueUnder(key) ==
  IF key.t = "integer" THEN lua_integer(10 * key.n) ELSE lua_string(key.s)

RECURSIVE PushLuaValueTree(_, _)
PushLuaValueTree(v, depth) ==
  IF depth > kMaxDepth THEN DepthError
  ELSE IF v.kind = "nil" THEN lua_nil
  ELSE IF v.kind = "bool" THEN lua_boolean(v.b)
  ELSE IF v.kind = "int64" THEN lua_integer(v.n)
  ELSE IF v.kind = "string" THEN lua_string(v.s)
  ELSE IF v.kind = "array"
    THEN LET pushed == [i \in DOMAIN v.items |->
                          PushLuaValueTree(v.items[i], depth + 1)]
             \* lua_rawseti with nil stores nothing; the keys go in
             \* ascending order into a fresh table, which keeps them so
             idxs == SelectSeq([i \in DOMAIN v.items |-> i],
                               LAMBDA i : pushed[i] # lua_nil)
         IN IF \E i \in DOMAIN pushed : pushed[i] = DepthError
              THEN DepthError
              ELSE lua_table([p \in DOMAIN idxs |-> IntKey(idxs[p])],
                             [p \in DOMAIN idxs |-> pushed[idxs[p]]])
    ELSE LET pushed == [k \in DOMAIN v.fields |->
                          PushLuaValueTree(v.fields[k], depth + 1)]
             \* lua_settable with nil stores nothing; string keys sit in
             \* the hash part, enumerated in an order of the runtime's
             order == CHOOSE o \in Enumerations(
                        {StrKey(k) : k \in {f \in DOMAIN v.fields :
                                             pushed[f] # lua_nil}}) : TRUE
         IN IF \E k \in DOMAIN pushed : pushed[k] = DepthError
              THEN DepthError
              ELSE lua_table(order,
                             [p \in DOMAIN order |-> pushed[order[p].s]])

\* The tables a script can hand to ToLuaValue: every key set over the
\* integers 1..MaxKey and one string, in every enumeration order.
LuaKeys == {IntKey(n) : n \in 1..MaxKey} \cup {StrKey("x")}
ScriptTables ==
  UNION {{lua_table(o, [p \in DOMAIN o |-> ValueUnder(o[p])]) :
            o \in Enumerations(K)} : K \in SUBSET LuaKeys}

\* The values a host can hand to PushLuaValue: scalars, the sequences of at
\* most MaxLen scalars, the maps of scalars keyed by a subset of FieldNames,
\* and each of these once more inside a sequence and inside a map.
Scalars == {LuaValueNil, FromBool(TRUE), FromInt64(1), FromString("x")}
FieldNames == {"1", "x"}
Flat ==
  UNION {{FromArray(a) : a \in [1..n -> Scalars]} : n \in 0..MaxLen}
    \cup UNION {{FromTable(t) : t \in [F -> Scalars]} : F \in SUBSET FieldNames}
HostValues ==
  Scalars \cup Flat
    \cup {FromArray(<<v>>) : v \in Flat}
    \cup {FromTable([k \in {"x"} |-> v]) : v \in Flat}

\* The stack slots lua.h promises a caller who has not called
\* lua_checkstack; no function of the runtime calls it.
LUA_MINSTACK == 20

\* Values nested v deep, as in the chains of Visits: a sequence holding a
\* sequence ... holding a scalar at depth v.
Nestings == 0..(kMaxDepth + MaxOver)

\* The room the interpreter stack has when a conversion starts: what lua.h
\* promises, or a stack that earlier calls have grown past every nesting.
StackRooms == {LUA_MINSTACK, kMaxDepth + MaxOver + 2}

\* The slots ToLuaValue has pushed at its deepest visit of a value nested v
\* deep: the element lua_rawgeti fetched at each level, and the key and value
\* of lua_next in isSequentialArray on the innermost sequence.
ToLuaValueSlots(v) == IF v = 0 THEN 0 ELSE (v - 1) + 2

\* The slots PushLuaValue has pushed at its deepest visit: the table of each
\* enclosing level and the scalar itself.
PushLuaValueSlots(v) == Cardinality({d \in Visits(v, 0) : d <= kMaxDepth})

\* A conversion that stays inside the stack returns or throws as written;
\* one that pushes past it writes outside the stack, after which the build
\* may carry on as if nothing happened or end the process.
Outcomes(slots, room, ok) ==
  {IF ok THEN "ok" ELSE "nesting depth"}
    \cup (IF slots > room THEN {"fault"} ELSE {})

InitConv ==
  /\ ContextConstructed
  /\ NoHostFunctions
  /\ EmptyStack
  /\ NoHandles
  /\ NoTeardown
  /\ DefaultLibraries
  /\ NoUserdataEntries
  /\ NoTables
  /\ lastOp = NoCall
  /\ conv \in {[op |-> "pending", side |-> "embedded", input |-> t] :
                 t \in ScriptTables}
         \cup {[op |-> "pending", side |-> "host", input |-> v] :
                 v \in HostValues}
         \cup {[op |-> "pending", side |-> sd, input |-> v, room |-> r] :
                 sd \in {"embedded nest", "host nest"},
                 v \in Nestings, r \in StackRooms}

\* ToLuaValue(L, index) on a value a script left on the stack.
ConvertToValue ==
  /\ conv.op = "pending" /\ conv.side = "embedded"
  /\ conv' = [op |-> "ToLuaValue", input |-> conv.input,
              output |-> ToLuaValueTree(conv.input, 0)]
  /\ UNCHANGED <<refVars, coVars, asyncVars, lastOp, convOthers>>

\* PushLuaValue(L, value) on a value of the host.
ConvertPush ==
  /\ conv.op = "pending" /\ conv.side = "host"
  /\ conv' = [op |-> "PushLuaValue", input |-> conv.input,
              output |-> PushLuaValueTree(conv.input, 0)]
  /\ UNCHANGED <<refVars, coVars, asyncVars, lastOp, convOthers>>

\* ToLuaValue(L, -1) on the value PushLuaValue has just pushed.
ConvertBack ==
  /\ conv.op = "PushLuaValue"
  /\ conv' = [op |-> "RoundTrip", input |-> conv.input,
              pushed |-> conv.output,
              output |-> ToLuaValueTree(conv.output, 0)]
  /\ UNCHANGED <<refVars, coVars, asyncVars, lastOp, convOthers>>

\* ExecuteScript returning a value nested conv.input deep: ToLuaValue(L_, i)
\* inside the try block, whose catch returns e.what().
ConvertNestToValue ==
  /\ conv.op = "pending" /\ conv.side = "embedded nest"
  /\ \E out \in Outcomes(ToLuaValueSlots(conv.input), conv.room,
                         ToLuaValue(conv.input, 0).ok) :
       /\ conv' = [op |-> "ToLuaValue nest", input |-> conv.input,
                   room |-> conv.room, result |-> out]
       /\ fault' = (out = "fault")
  /\ UNCHANGED <<refVars, coVars, is_busy, async_mode, worker,
                 host_functions, wrappers, next_userdata_id, lastOp, convOthers>>

\* SetGlobal with a value nested conv.input deep: PushLuaValue(L_, value),
\* whose exception reaches the caller.
ConvertNestPush ==
  /\ conv.op = "pending" /\ conv.side = "host nest"
  /\ \E out \in Outcomes(PushLuaValueSlots(conv.input), conv.room,
                         PushLuaValue(conv.input, 0).ok) :
       /\ conv' = [op |-> "PushLuaValue nest", input |-> conv.input,
                   room |-> conv.room, result |-> out]
       /\ fault' = (out = "fault")
  /\ UNCHANGED <<refVars, coVars, is_busy, async_mode, worker,
                 host_functions, wrappers, next_userdata_id, lastOp, convOthers>>

NextConv ==
  \/ ConvertToValue
  \/ ConvertPush
  \/ ConvertBack
  \/ ConvertNestToValue
  \/ ConvertNestPush

SpecConv == InitConv /\ [][NextConv]_vars

\* The key set of a table, whatever the order it is enumerated in.
KeySet(tbl) == {tbl.order[p] : p \in DOMAIN tbl.order}

\* C11: ToLuaValue of a plain table returns a sequence of length N exactly
\* when the key set is {1,...,N}, whatever the enumeration order, and for
\* every other key set a map keyed by the stringified keys.
C11_ArrayMapClassification ==
  conv.op = "ToLuaValue" =>
    LET K == KeySet(conv.input)
        N == Cardinality(K)
    IN IF K = {IntKey(i) : i \in 1..N}
         THEN conv.output.kind = "array" /\ Len(conv.output.items) = N
         ELSE /\ conv.output.kind = "map"
              /\ DOMAIN conv.output.fields = {lua_tostring(k) : k \in K}

\* C13: ToLuaValue of what PushLuaValue pushed is the value pushed.
C13_RoundTrip ==
  conv.op = "RoundTrip" => conv.output = conv.input

\* C12: with the root at depth 0, ToLuaValue and PushLuaValue succeed on a
\* value whose deepest element is at depth kMaxDepth or less, and report the
\* nesting-depth error, and nothing else, on a deeper one.
C12_DepthBoundary ==
  conv.op \in {"ToLuaValue nest", "PushLuaValue nest"} =>
    conv.result = IF conv.input <= kMaxDepth THEN "ok" ELSE "nesting depth"

\* ------------------------------------------------ host functions, called

\* What the implementation does when invoked, and how deep the argument the
\* script passes is nested.
Behaviours == {"returns", "returns nest", "throws", "throws other"}
ArgNests == {0, kMaxDepth + MaxOver}

\* A plausible slip: emplace, which keeps the entry a name already has.
StoreHostFunctionEmplace(impl, name, fn) ==
  IF impl[name] # 0 THEN impl ELSE [impl EXCEPT ![name] = fn]

\* host_functions_[name] = std::move(fn).
StoreHostFunction(impl, name, fn) == [impl EXCEPT ![name] = fn]

\* lua_pushstring(name); lua_pushcclosure(LuaCallHostFunction, 1): the
\* closure holds the name. made_for remembers the implementation registered
\* when it was made, which the closure itself does not hold.
NewClosure(name, fn) == [upvalue |-> name, made_for |-> fn]

\* The error LuaCallHostFunction raises: its text and the message it embeds.
HostError(text, what) == [text |-> text, what |-> what]
NoError == HostError("none", "none")

\* One call of LuaCallHostFunction through closure c, with `room` stack slots
\* free. The outcomes: the implementations invoked, the error raised, and
\* whether a conversion wrote outside the stack.
CallHostFunction(c, impl, async, arg, behaviour, room) ==
  LET Done(invoked, raised, flt) ==
        [invoked |-> invoked, raised |-> raised, fault |-> flt]
      look == LuaCallHostFunction(c.upvalue,
                                  {n \in FnNames : impl[n] # 0}, async)
      fn == impl[c.upvalue]
      res == IF behaviour = "returns nest" THEN kMaxDepth + MaxOver ELSE 0
      Pushed(o) ==
        CASE o = "fault" -> Done(<<fn>>, NoError, TRUE)
          [] o = "nesting depth" ->
               Done(<<fn>>, HostError("Error converting return value",
                                      "nesting depth"), FALSE)
          [] OTHER -> Done(<<fn>>, NoError, FALSE)
      Invoked ==
        CASE behaviour = "throws" ->
               {Done(<<fn>>, HostError("Host function threw an exception",
                                       "what"), FALSE)}
          [] behaviour = "throws other" ->
               {Done(<<fn>>,
                     HostError("Host function threw an unknown exception",
                               "none"), FALSE)}
          [] OTHER ->
               {Pushed(o) : o \in Outcomes(PushLuaValueSlots(res), room,
                                           PushLuaValue(res, 0).ok)}
      Converted(o) ==
        CASE o = "fault" -> {Done(<<>>, NoError, TRUE)}
          [] o = "nesting depth" ->
               {Done(<<>>, HostError("Error converting arguments",
                                     "nesting depth"), FALSE)}
          [] OTHER -> Invoked
  IN IF ~look.invoked
       THEN {Done(<<>>, HostError(look.error, "none"), FALSE)}
       ELSE UNION {Converted(o) :
                     o \in Outcomes(ToLuaValueSlots(arg), room,
                                    ToLuaValue(arg, 0).ok)}

\* Every closure RegisterFunction can make.
Closures == {NewClosure(n, fn) : n \in FnNames, fn \in Fns}

InitHost ==
  /\ ContextConstructed
  /\ NoConversion
  /\ EmptyStack
  /\ NoHandles
  /\ NoTeardown
  /\ DefaultLibraries
  /\ NoUserdataEntries
  /\ NoTables
  /\ NoHostFunctions
  /\ lastOp = [op |-> "none"]

\* RegisterFunction(name, fn): store the implementation, bind a new closure.
RegisterFunction(name, fn) ==
  /\ ~fault
  /\ host_impl' = StoreHostFunction(host_impl, name, fn)
  /\ host_functions' = host_functions \cup {name}
  /\ lua_globals' = [lua_globals EXCEPT ![name] = NewClosure(name, fn)]
  /\ latest' = [latest EXCEPT ![name] = fn]
  /\ lastOp' = [op |-> "RegisterFunction", name |-> name, fn |-> fn]
  /\ UNCHANGED <<refVars, coVars, is_busy, async_mode, worker, wrappers,
                 next_userdata_id, fault, kept, hostOthers>>

\* StoreHostFunction(name, fn) by itself: the global keeps its closure.
StoreFunction(name, fn) ==
  /\ ~fault
  /\ host_impl' = StoreHostFunction(host_impl, name, fn)
  /\ host_functions' = host_functions \cup {name}
  /\ latest' = [latest EXCEPT ![name] = fn]
  /\ lastOp' = [op |-> "StoreHostFunction", name |-> name, fn |-> fn]
  /\ UNCHANGED <<refVars, coVars, is_busy, async_mode, worker, wrappers,
                 next_userdata_id, fault, lua_globals, kept, hostOthers>>

\* ExecuteScript("saved = name"): the script stores the closure away.
KeepClosure(name) ==
  /\ ~fault
  /\ lua_globals[name] # NoClosure
  /\ kept' = lua_globals[name]
  /\ lastOp' = [op |-> "KeepClosure", name |-> name, fn |-> 0]
  /\ UNCHANGED <<refVars, coVars, asyncVars, host_impl, lua_globals, latest,
                 hostOthers>>

\* ExecuteScript("return c(arg)") with c the closure of a global or the one
\* stored away: lua_pcall runs LuaCallHostFunction; a raised error is the
\* string ExecuteScript returns.
CallClosure(c, arg, behaviour, room) ==
  /\ ~fault
  /\ c \in {lua_globals[n] : n \in FnNames} \cup {kept}
  /\ \E r \in CallHostFunction(c, host_impl, async_mode, arg, behaviour,
                               room) :
       /\ lastOp' = [op |-> "call", closure |-> c, arg |-> arg,
                     behaviour |-> behaviour, invoked |-> r.invoked,
                     result |-> IF r.fault THEN "fault"
                                ELSE IF r.raised = NoError THEN "values"
                                ELSE "error",
                     error |-> r.raised,
                     after_error |-> (lastOp.op = "call"
                                        /\ lastOp.result = "error")]
       /\ fault' = r.fault
  /\ UNCHANGED <<refVars, coVars, is_busy, async_mode, worker,
                 host_functions, wrappers, next_userdata_id, hostVars,
                 hostOthers>>

NextHost ==
  \/ \E name \in FnNames, fn \in Fns : RegisterFunction(name, fn)
  \/ \E name \in FnNames, fn \in Fns : StoreFunction(name, fn)
  \/ \E name \in FnNames : KeepClosure(name)
  \/ \E c \in Closures, arg \in ArgNests, behaviour \in Behaviours,
        room \in StackRooms :
       CallClosure(c, arg, behaviour, room)

SpecHost == InitHost /\ [][NextHost]_vars

\* C14: a call under a name, through the global or through a closure made
\* while an earlier implementation was registered, invokes the
\* implementation registered last, once, and no other.
C14_LatestRegistration ==
  lastOp.op = "call" =>
    /\ \A i \in DOMAIN lastOp.invoked :
         lastOp.invoked[i] = latest[lastOp.closure.upvalue]
    /\ Len(lastOp.invoked) <= 1
    /\ lastOp.arg = 0 => Len(lastOp.invoked) = 1

\* A closure made for one implementation has invoked the later one.
C14_Witness ==
  /\ lastOp.op = "call"
  /\ lastOp.closure = kept
  /\ lastOp.closure.made_for # latest[lastOp.closure.upvalue]
  /\ lastOp.invoked = <<latest[lastOp.closure.upvalue]>>

\* C15: when the host function throws, or its arguments or its result
\* cannot be marshalled, the call raises an error carrying the message, the
\* enclosing ExecuteScript returns it and the process goes on; a failure on
\* the arguments invokes nothing; and an execution after such an error runs
\* normally.
C15_HostCallbackFailure ==
  lastOp.op = "call" =>
    /\ lastOp.arg > kMaxDepth =>
         /\ lastOp.result = "error"
         /\ lastOp.error = HostError("Error converting arguments",
                                     "nesting depth")
         /\ lastOp.invoked = <<>>
    /\ (lastOp.arg <= kMaxDepth /\ lastOp.behaviour = "throws") =>
         /\ lastOp.result = "error"
         /\ lastOp.error.what = "what"
    /\ (lastOp.arg <= kMaxDepth /\ lastOp.behaviour = "throws other") =>
         lastOp.result = "error"
    /\ (lastOp.arg <= kMaxDepth /\ lastOp.behaviour = "returns nest") =>
         /\ lastOp.result = "error"
         /\ lastOp.error = HostError("Error converting return value",
                                     "nesting depth")
    /\ (lastOp.after_error /\ lastOp.arg <= kMaxDepth
          /\ lastOp.behaviour = "returns") =>
         lastOp.result = "values"

\* ------------------------------------------------ the main stack's depth

\* How an operation ends: the depth it leaves the main stack at, and what
\* the caller gets ("threw" is an exception, "fault" the end of the process).
Ended(top, result) == [top |-> top, result |-> result]

\* StackGuard: the constructor saves lua_gettop, the destructor runs
\* lua_settop(L, saved) on return and while an exception unwinds.
StackGuard(saved, top, result) == Ended(saved, result)

\* What a chunk does under lua_pcall: it returns one value nested `nest`
\* deep, raises a message, or raises an object that is not a string.
Chunks ==
  [kind : {"values"}, nest : ArgNests]
    \cup [kind : {"error", "errorObject"}, nest : {0}]

\* The tail ExecuteScript, ExecuteFile, LoadBytecode and CallFunction share,
\* entered with the chunk's outcome on the stack above stackBefore.
AfterCall(stackBefore, chunk, room) ==
  CASE chunk.kind = "error" ->
         \* std::string error = lua_tostring(L_, -1); lua_pop(L_, 1)
         {Ended((stackBefore + 1) - 1, "error")}
    [] chunk.kind = "errorObject" ->
         \* lua_tostring is NULL: std::string throws or the process ends,
         \* before lua_pop
         {Ended(stackBefore + 1, "threw"), Ended(stackBefore + 1, "fault")}
    [] OTHER ->
         \* nresults = 1; ToLuaValue in try; lua_pop(L_, nresults) on both
         \* paths
         {CASE o = "fault" -> Ended(stackBefore + 1, "fault")
            [] o = "nesting depth" -> Ended((stackBefore + 1) - 1, "error")
            [] OTHER -> Ended((stackBefore + 1) - 1, "values") :
          o \in Outcomes(ToLuaValueSlots(chunk.nest), room,
                         ToLuaValue(chunk.nest, 0).ok)}

ExecuteScriptStack(top, chunk, room) == AfterCall(top, chunk, room)

ExecuteFileStack(top, empty, chunk, room) ==
  IF empty THEN {Ended(top, "error")} ELSE AfterCall(top, chunk, room)

LoadBytecodeStack(top, empty, chunk, room) ==
  IF empty THEN {Ended(top, "error")} ELSE AfterCall(top, chunk, room)

\* luaL_loadstring pushes the chunk or the message; the guard pops it.
CompileScriptStack(top, loads) ==
  {StackGuard(top, top + 1, IF loads THEN "bytecode" ELSE "error")}

\* lua_rawgeti pushes the function, PushLuaValue the argument; nothing
\* catches its exception and nothing pops what it had pushed.
CallFunctionStack(top, arg, chunk, room) ==
  LET p == PushLuaValue(arg, 0)
  IN UNION {CASE o = "fault" -> {Ended(top + 1 + p.left, "fault")}
              [] o = "nesting depth" -> {Ended(top + 1 + p.left, "threw")}
              [] OTHER -> AfterCall(((top + 1) + 1) - 2, chunk, room) :
            o \in Outcomes(1 + PushLuaValueSlots(arg), room, p.ok)}

\* PushLuaValue, lua_setglobal: the exception of PushLuaValue leaves what
\* it had pushed.
SetGlobalStack(top, v, room) ==
  LET p == PushLuaValue(v, 0)
  IN {CASE o = "fault" -> Ended(top + p.left, "fault")
        [] o = "nesting depth" -> Ended(top + p.left, "threw")
        [] OTHER -> Ended((top + p.left) - 1, "ok") :
      o \in Outcomes(PushLuaValueSlots(v), room, p.ok)}

\* A conversion under a StackGuard, entered with `pushed` slots above top.
Guarded(top, pushed, slots, ok, room) ==
  {CASE o = "fault" -> Ended(top + pushed, "fault")
     [] o = "nesting depth" -> StackGuard(top, top + pushed, "threw")
     [] OTHER -> StackGuard(top, top + pushed, "ok") :
   o \in Outcomes(pushed + slots, room, ok)}

\* lua_getglobal, ToLuaValue(L_, -1).
GetGlobalStack(top, nest, room) ==
  Guarded(top, 1, ToLuaValueSlots(nest), ToLuaValue(nest, 0).ok, room)

\* lua_pushstring, lua_pushcclosure, lua_setglobal.
RegisterFunctionStack(top) == {Ended((((top + 1) - 1) + 1) - 1, "ok")}

\* The global is nil, not a table, or a table that gets a metatable with
\* one entry.
SetGlobalMetatableStack(top, global, v, room) ==
  IF global # "table" THEN {StackGuard(top, top + 1, "threw")}
  ELSE Guarded(top, 2, PushLuaValueSlots(v), PushLuaValue(v, 0).ok, room)

\* HasPackageLibrary, then package, package.loaded and the module table.
RegisterModuleTableStack(top, package, v, room) ==
  IF ~package THEN {StackGuard(top, top, "threw")}
  ELSE Guarded(top, 3, PushLuaValueSlots(v), PushLuaValue(v, 0).ok, room)

AddSearchPathStack(top, package) ==
  {StackGuard(top, IF package THEN top + 1 ELSE top,
              IF package THEN "ok" ELSE "threw")}

\* lua_newthread, luaL_ref, lua_rawgeti, lua_xmove.
CreateCoroutineStack(top) ==
  {StackGuard(top, (((top + 1) - 1) + 1) - 1, "thread")}

\* lua_rawgeti of the table, the field, ToLuaValue(L_, -1).
GetTableFieldStack(top, nest, room) ==
  Guarded(top, 2, ToLuaValueSlots(nest), ToLuaValue(nest, 0).ok, room)

\* lua_rawgeti of the table, PushLuaValue, lua_setfield.
SetTableFieldStack(top, v, room) ==
  Guarded(top, 1, PushLuaValueSlots(v), PushLuaValue(v, 0).ok, room)

\* HasTableField, GetTableKeys, GetTableLength: the table and a field or a
\* key under the guard.
ReadTableStack(top) == {StackGuard(top, top + 2, "ok")}

InitStack ==
  /\ ContextConstructed
  /\ NoConversion
  /\ NoHostFunctions
  /\ EmptyStack
  /\ NoHandles
  /\ NoTeardown
  /\ DefaultLibraries
  /\ NoUserdataEntries
  /\ NoTables
  /\ lastOp = [op |-> "none", result |-> "none", before |-> 0]

\* One operation of the runtime, ending as `out`.
Operation(op, out) ==
  /\ stack_top <= MaxSlack
  /\ stack_top' = out.top
  /\ fault' = (out.result = "fault")
  /\ lastOp' = [op |-> op, result |-> out.result, before |-> stack_top]
  /\ UNCHANGED <<refVars, coVars, is_busy, async_mode, worker,
                 host_functions, wrappers, next_userdata_id, stackOthers>>

OnExecuteScript ==
  /\ ~fault
  /\ \E chunk \in Chunks, room \in StackRooms :
       \E out \in ExecuteScriptStack(stack_top, chunk, room) :
         Operation("ExecuteScript", out)

OnExecuteFile ==
  /\ ~fault
  /\ \E empty \in BOOLEAN, chunk \in Chunks, room \in StackRooms :
       \E out \in ExecuteFileStack(stack_top, empty, chunk, room) :
         Operation("ExecuteFile", out)

OnLoadBytecode ==
  /\ ~fault
  /\ \E empty \in BOOLEAN, chunk \in Chunks, room \in StackRooms :
       \E out \in LoadBytecodeStack(stack_top, empty, chunk, room) :
         Operation("LoadBytecode", out)

OnCompileScript ==
  /\ ~fault
  /\ \E loads \in BOOLEAN :
       \E out \in CompileScriptStack(stack_top, loads) :
         Operation("CompileScript", out)

OnCallFunction ==
  /\ ~fault
  /\ \E arg \in ArgNests, chunk \in Chunks, room \in StackRooms :
       \E out \in CallFunctionStack(stack_top, arg, chunk, room) :
         Operation("CallFunction", out)

OnSetGlobal ==
  /\ ~fault
  /\ \E v \in ArgNests, room \in StackRooms :
       \E out \in SetGlobalStack(stack_top, v, room) :
         Operation("SetGlobal", out)

OnGetGlobal ==
  /\ ~fault
  /\ \E nest \in ArgNests, room \in StackRooms :
       \E out \in GetGlobalStack(stack_top, nest, room) :
         Operation("GetGlobal", out)

OnRegisterFunction ==
  /\ ~fault
  /\ \E out \in RegisterFunctionStack(stack_top) :
       Operation("RegisterFunction", out)

OnSetGlobalMetatable ==
  /\ ~fault
  /\ \E global \in {"nil", "number", "table"}, v \in ArgNests,
        room \in StackRooms :
       \E out \in SetGlobalMetatableStack(stack_top, global, v, room) :
         Operation("SetGlobalMetatable", out)

OnRegisterModuleTable ==
  /\ ~fault
  /\ \E package \in BOOLEAN, v \in ArgNests, room \in StackRooms :
       \E out \in RegisterModuleTableStack(stack_top, package, v, room) :
         Operation("RegisterModuleTable", out)

OnAddSearchPath ==
  /\ ~fault
  /\ \E package \in BOOLEAN :
       \E out \in AddSearchPathStack(stack_top, package) :
         Operation("AddSearchPath", out)

OnCreateCoroutine ==
  /\ ~fault
  /\ \E out \in CreateCoroutineStack(stack_top) :
       Operation("CreateCoroutine", out)

OnGetTableField ==
  /\ ~fault
  /\ \E nest \in ArgNests, room \in StackRooms :
       \E out \in GetTableFieldStack(stack_top, nest, room) :
         Operation("GetTableField", out)

OnSetTableField ==
  /\ ~fault
  /\ \E v \in ArgNests, room \in StackRooms :
       \E out \in SetTableFieldStack(stack_top, v, room) :
         Operation("SetTableField", out)

OnReadTable ==
  /\ ~fault
  /\ \E op \in {"HasTableField", "GetTableKeys", "GetTableLength"} :
       \E out \in ReadTableStack(stack_top) :
         Operation(op, out)

NextStack ==
  \/ OnExecuteScript
  \/ OnExecuteFile
  \/ OnLoadBytecode
  \/ OnCompileScript
  \/ OnCallFunction
  \/ OnSetGlobal
  \/ OnGetGlobal
  \/ OnRegisterFunction
  \/ OnSetGlobalMetatable
  \/ OnRegisterModuleTable
  \/ OnAddSearchPath
  \/ OnCreateCoroutine
  \/ OnGetTableField
  \/ OnSetTableField
  \/ OnReadTable

SpecStack == InitStack /\ [][NextStack]_vars

\* C16: every operation that comes back to its caller, with a result, an
\* error or an exception, has left the main stack at the depth it found.
C16_StackBalance ==
  (lastOp.op # "none" /\ ~fault) => stack_top = lastOp.before

\* ------------------------------------------------ handles and the registry

\* LuaFunctionRef, LuaThreadRef, LuaTableRef, and the LuaUserdataRef of a
\* userdata the embedded side created (opaque, anchored in the registry).
HandleKinds == {"function", "thread", "table", "userdata"}

\* The handle ToLuaValue builds around the slot luaL_ref returned. obj
\* remembers the object anchored, which the handle itself does not hold.
NewHandle(kind, slot, obj) ==
  [kind |-> kind, ref |-> slot, L |-> TRUE, opaque |-> (kind = "userdata"),
   obj |-> obj]

\* A plausible slip: a move that leaves the source as it was.
MovedKeepsRef(h) == h

\* The source of a move constructor or move assignment afterwards.
Moved(h) == [h EXCEPT !.ref = LUA_NOREF, !.L = FALSE]

\* luaL_unref(L, LUA_REGISTRYINDEX, ref): the slot goes back to the free
\* list, whatever it holds. `unref` tells what the call let go of: the
\* object the handle h was made for, a slot that was free already, or a
\* slot that by now anchors another object.
luaL_unref(reg, h) ==
  [reg |-> [reg EXCEPT ![h.ref] = 0],
   unref |-> IF reg[h.ref] = h.obj THEN "own"
             ELSE IF reg[h.ref] = 0 THEN "free" ELSE "other"]

\* release(): the test, luaL_unref, ref = LUA_NOREF.
release(reg, h) ==
  IF h.L /\ h.ref # LUA_NOREF /\ (h.kind = "userdata" => h.opaque)
    THEN [h |-> [h EXCEPT !.ref = LUA_NOREF], reg |-> luaL_unref(reg, h).reg,
          unref |-> luaL_unref(reg, h).unref]
    ELSE [h |-> h, reg |-> reg, unref |-> "none"]

\* lua_rawgeti(L, LUA_REGISTRYINDEX, ref): what the slot holds now; nothing
\* under LUA_NOREF.
Dereference(reg, h) == IF h.ref = LUA_NOREF THEN 0 ELSE reg[h.ref]

InitHandle ==
  /\ ContextConstructed
  /\ NoConversion
  /\ NoHostFunctions
  /\ EmptyStack
  /\ NoHandles
  /\ NoTeardown
  /\ DefaultLibraries
  /\ NoUserdataEntries
  /\ NoTables
  /\ lastOp = [op |-> "none", src |-> 0, held |-> FALSE, unref |-> "none",
               found |-> 0]

HandleStep(op, src, held, unref, found) ==
  /\ lastOp' = [op |-> op, src |-> src, held |-> held, unref |-> unref,
                found |-> found]
  /\ UNCHANGED <<refVars, coVars, asyncVars, handleOthers>>

\* ToLuaValue of a function, thread, metatabled table or userdata:
\* lua_pushvalue, luaL_ref, and the handle around the slot. The handle
\* objects of one run are of one type, as the operands of a copy or a move
\* are.
Allocate(h, kind, slot) ==
  /\ handles[h] = NoHandle
  /\ \A g \in HandleIds : handles[g].kind \in {"none", kind}
  /\ registry[slot] = 0
  /\ next_object <= MaxObjects
  /\ registry' = [registry EXCEPT ![slot] = next_object]
  /\ handles' = [handles EXCEPT ![h] = NewHandle(kind, slot, next_object)]
  /\ next_object' = next_object + 1
  /\ HandleStep("allocate", h, FALSE, "none", 0)

\* The defaulted copy constructor: the copy shares the slot.
CopyConstruct(src, dst) ==
  /\ handles[src] # NoHandle
  /\ handles[dst] = NoHandle
  /\ handles' = [handles EXCEPT ![dst] = handles[src]]
  /\ HandleStep("copy", src, FALSE, "none", 0)
  /\ UNCHANGED <<registry, next_object>>

\* The defaulted copy assignment: the fields are overwritten, nothing is
\* released.
CopyAssign(src, dst) ==
  /\ src # dst
  /\ handles[src] # NoHandle
  /\ handles[dst].kind = handles[src].kind
  /\ handles' = [handles EXCEPT ![dst] = handles[src]]
  /\ HandleStep("copy-assign", src, handles[dst].ref # LUA_NOREF,
                "none", 0)
  /\ UNCHANGED <<registry, next_object>>

\* The move constructor.
MoveConstruct(src, dst) ==
  /\ handles[src] # NoHandle
  /\ handles[dst] = NoHandle
  /\ handles' = [handles EXCEPT ![dst] = handles[src],
                                ![src] = Moved(handles[src])]
  /\ HandleStep("move", src, FALSE, "none", 0)
  /\ UNCHANGED <<registry, next_object>>

\* The move assignment: this != &other, release(), take the fields.
MoveAssign(src, dst) ==
  LET r == release(registry, handles[dst])
  IN /\ src # dst
     /\ handles[src] # NoHandle
     /\ handles[dst].kind = handles[src].kind
     /\ registry' = r.reg
     /\ handles' = [handles EXCEPT ![dst] = handles[src],
                                   ![src] = Moved(handles[src])]
     /\ HandleStep("move-assign", src,
                   handles[dst].L /\ handles[dst].ref # LUA_NOREF,
                   r.unref, 0)
     /\ UNCHANGED next_object

Release(h) ==
  LET r == release(registry, handles[h])
  IN /\ handles[h] # NoHandle
     /\ registry' = r.reg
     /\ handles' = [handles EXCEPT ![h] = r.h]
     /\ HandleStep("release", h,
                   handles[h].L /\ handles[h].ref # LUA_NOREF, r.unref, 0)
     /\ UNCHANGED next_object

\* PushLuaValue, CallFunction, ResumeCoroutine or a table-field operation
\* on the handle: lua_rawgeti of its ref.
Use(h) ==
  /\ handles[h] # NoHandle
  /\ HandleStep("use", h, FALSE, "none",
                Dereference(registry, handles[h]))
  /\ UNCHANGED handleVars

NextMove ==
  \/ \E h \in HandleIds, kind \in HandleKinds, slot \in Slots :
       Allocate(h, kind, slot)
  \/ \E src, dst \in HandleIds : MoveConstruct(src, dst)
  \/ \E src, dst \in HandleIds : MoveAssign(src, dst)
  \/ \E h \in HandleIds : Release(h)
  \/ \E h \in HandleIds : Use(h)

SpecMove == InitHandle /\ [][NextMove]_vars

NextHandle ==
  \/ NextMove
  \/ \E src, dst \in HandleIds : CopyConstruct(src, dst)
  \/ \E src, dst \in HandleIds : CopyAssign(src, dst)

SpecHandle == InitHandle /\ [][NextHandle]_vars

\* C17: a move leaves its source without slot and without runtime; a move
\* assignment first releases the slot its destination held; release() on a
\* handle that holds no slot does nothing; every luaL_unref lets go of the
\* very object the handle was made for; and once every handle object has
\* been released no slot is left taken.
C17_OwnershipTransfer ==
  /\ lastOp.op \in {"move", "move-assign"} =>
       /\ handles[lastOp.src].ref = LUA_NOREF
       /\ ~handles[lastOp.src].L
  /\ lastOp.op \in {"move-assign", "release"} =>
       lastOp.unref = IF lastOp.held THEN "own" ELSE "none"
  /\ (\A h \in HandleIds : handles[h].ref = LUA_NOREF) =>
       \A s \in Slots : registry[s] = 0

\* After a move, every handle object has been released and the slot of the
\* object moved has just been given back.
C17_Witness ==
  /\ lastOp.op = "release"
  /\ lastOp.unref = "own"
  /\ \E h \in HandleIds : handles[h].kind # "none" /\ ~handles[h].L
  /\ \A h \in HandleIds : handles[h].ref = LUA_NOREF
  /\ next_object > 1

\* C18: a handle that is used finds in its slot the object it was made for,
\* never a slot that was released or one that anchors another object by now.
C18_NoUseAfterRelease ==
  (lastOp.op = "use" /\ handles[lastOp.src].ref # LUA_NOREF) =>
    lastOp.found = handles[lastOp.src].obj

\* ------------------------------------------------------------ teardown

\* What a teardown step leaves alone besides the userdata tables, the
\* handles, the teardown variables and fault.
downRest == <<coVars, is_busy, async_mode, worker, host_functions, wrappers,
              next_userdata_id, downOthers>>

\* The owners of the shared_ptr to the runtime: the context until its
\* members are destroyed, and a worker from its construction to its deletion.
\* (Each wrapper holds one too, and lets go of it after its release().)
WorkerAlive(p) == p.pc \in {"queued", "executing", "callback", "complete"}
OnPoolThread(p) == p.pc \in {"executing", "callback"}

\* What a step that races with the chunk on the pool thread can come to:
\* as if one after the other, the end of the process, or, for luaL_unref
\* pushing and popping on the stack the chunk runs on, a slot that keeps a
\* value.
UnrefRaces == Races \cup {"slot kept"}

\* The blocks lua_close finalizes: every one whose __gc has not run.
Pending(blks) == {b \in BlockIds : blks[b].st \in {"live", "garbage"}}

InitDown ==
  /\ ContextConstructed
  /\ NoConversion
  /\ NoHostFunctions
  /\ EmptyStack
  /\ NoHandles
  /\ NoTeardown
  /\ DefaultLibraries
  /\ NoUserdataEntries
  /\ NoTables
  /\ lastOp = [op |-> "none"]

\* set_userdata on the host thread: the entry point tests is_busy_.
DownSetUserdata(name, ref_id, proxy) ==
  /\ context = "constructed"
  /\ pool.pc = "none"
  /\ ~fault
  /\ IF proxy THEN CreateProxyUserdataGlobal(name, ref_id, {})
              ELSE CreateUserdataGlobal(name, ref_id, {})

\* CoreToNapi of a function, thread or opaque userdata on the host thread:
\* the handle goes into a LuaFunctionData, LuaThreadData or LuaUserdataData
\* the context keeps in its vectors.
DownWrap(h, kind, slot) ==
  /\ context = "constructed"
  /\ pool.pc = "none"
  /\ ~fault
  /\ Allocate(h, kind, slot)

\* execute_script_async / execute_file_async: the worker takes a copy of the
\* shared_ptr and a plain pointer to the context, and is queued.
DownQueue ==
  /\ context = "constructed"
  /\ pool.pc = "none"
  /\ ~fault
  /\ pool' = [pc |-> "queued", id |-> 0]
  /\ lastOp' = [op |-> "Queue"]
  /\ UNCHANGED <<refVars, handleVars, context, property_handlers, L_, fault,
                 downRest>>

\* The pool thread enters Execute.
PoolBegin ==
  /\ pool.pc = "queued"
  /\ ~fault
  /\ pool' = [pool EXCEPT !.pc = "executing"]
  /\ lastOp' = [op |-> "Execute"]
  /\ UNCHANGED <<refVars, handleVars, context, property_handlers, L_, fault,
                 downRest>>

\* The chunk drops a userdata and the collector runs its __gc on the pool
\* thread: UserdataGC, DecrementUserdataRefCount up to the test of
\* userdata_gc_callback_.
PoolFinalize(b) ==
  LET r == UserdataGC(userdata_ref_counts, userdata_gc_callback, blocks[b])
  IN /\ pool.pc = "executing"
     /\ ~fault
     /\ b \in Pending(blocks)
     /\ userdata_ref_counts' = r.counts
     /\ blocks' = MarkFinalized(blocks, {b})
     /\ pool' = IF r.fired = <<>> THEN pool
                ELSE [pc |-> "callback", id |-> r.fired[1]]
     /\ lastOp' = [op |-> "UserdataGC"]
     /\ UNCHANGED <<userdata_gc_callback, released, globals, host_handles,
                    handleVars, context, property_handlers, L_, fault,
                    downRest>>

\* ... and the call of the callback it found: the lambda of the constructor,
\* js_userdata_.erase(ref_id) on the context it captured.
PoolCallback ==
  /\ pool.pc = "callback"
  /\ ~fault
  /\ released' = RunCallback(released, <<pool.id>>)
  /\ pool' = [pc |-> "executing", id |-> 0]
  /\ lastOp' = [op |-> "callback", context |-> context]
  /\ UNCHANGED <<userdata_ref_counts, userdata_gc_callback, blocks, globals,
                 host_handles, handleVars, context, property_handlers, L_,
                 fault, downRest>>

\* Execute returns.
PoolEnd ==
  /\ pool.pc = "executing"
  /\ ~fault
  /\ pool' = [pool EXCEPT !.pc = "complete"]
  /\ lastOp' = [op |-> "Executed"]
  /\ UNCHANGED <<refVars, handleVars, context, property_handlers, L_, fault,
                 downRest>>

\* ~LuaRuntime once the last owner lets go: lua_close runs the __gc of every
\* block that is left.
LuaRuntimeDestructor ==
  LET fin == FinalizeBlocks(userdata_ref_counts, userdata_gc_callback,
                            blocks, Pending(blocks))
  IN /\ L_' = "closed"
     /\ userdata_ref_counts' = fin.counts
     /\ released' = RunCallback(released, fin.fired)
     /\ blocks' = MarkFinalized(blocks, Pending(blocks))
     /\ lastOp' = [op |-> "lua_close", fired |-> fin.fired]

\* The body of ~LuaContext: SetUserdataGCCallback(nullptr) and
\* SetPropertyHandlers(nullptr, nullptr). With the chunk on the pool thread
\* the writes race with its reads of the same members.
DestructorBody(race) ==
  /\ context = "constructed"
  /\ ~fault
  /\ race = "fault" => OnPoolThread(pool)
  /\ userdata_gc_callback' = FALSE
  /\ property_handlers' = FALSE
  /\ context' = "cleared"
  /\ fault' = (race = "fault")
  /\ lastOp' = [op |-> "~LuaContext"]
  /\ UNCHANGED <<userdata_ref_counts, released, blocks, globals, host_handles,
                 handleVars, pool, L_, downRest>>

\* The members go in reverse order: lua_userdata_data_, lua_thread_data_,
\* lua_function_data_, and each wrapper's destructor calls release() on its
\* handle. With the chunk on the pool thread luaL_unref races with it.
DestroyWrappers(race) ==
  LET held == {h \in HandleIds : release(registry, handles[h]).unref # "none"}
  IN /\ context = "cleared"
     /\ ~fault
     /\ race # "serialised" => (OnPoolThread(pool) /\ held # {})
     /\ handles' = [h \in HandleIds |-> release(registry, handles[h]).h]
     /\ registry' = IF race = "slot kept" THEN registry
                    ELSE [s \in Slots |->
                            IF \E h \in held : handles[h].ref = s
                              THEN 0 ELSE registry[s]]
     /\ context' = "members"
     /\ fault' = (race = "fault")
     /\ lastOp' = [op |-> "~LuaFunctionData"]
     /\ UNCHANGED <<refVars, next_object, property_handlers, pool, L_,
                    downRest>>

\* The last member, runtime: the context lets go of the LuaRuntime, and
\* closes it when no worker holds it.
DropRuntime ==
  /\ context = "members"
  /\ ~fault
  /\ context' = "destroyed"
  /\ IF WorkerAlive(pool)
       THEN /\ lastOp' = [op |-> "runtime.reset"]
            /\ UNCHANGED <<userdata_ref_counts, released, blocks, L_>>
       ELSE LuaRuntimeDestructor
  /\ UNCHANGED <<userdata_gc_callback, globals, host_handles, handleVars,
                 property_handlers, pool, fault, downRest>>

\* OnOK or OnError on the host thread, then the deletion of the worker:
\* context_->ClearBusy() through the plain pointer, which dangles once the
\* context is destroyed; the worker's shared_ptr goes, and with it the
\* LuaRuntime when the context has let go already.
Complete(race) ==
  /\ pool.pc = "complete"
  /\ context \in {"constructed", "destroyed"}
  /\ ~fault
  /\ race = "fault" => context = "destroyed"
  /\ fault' = (race = "fault")
  /\ pool' = NoPool
  /\ IF context = "destroyed" /\ race # "fault"
       THEN LuaRuntimeDestructor
       ELSE /\ lastOp' = [op |-> "OnOK"]
            /\ UNCHANGED <<userdata_ref_counts, released, blocks, L_>>
  /\ UNCHANGED <<userdata_gc_callback, globals, host_handles, handleVars,
                 context, property_handlers, downRest>>

NextDown ==
  \/ \E name \in Names, ref_id \in RefIds, proxy \in BOOLEAN :
       DownSetUserdata(name, ref_id, proxy)
  \/ \E h \in HandleIds, kind \in HandleKinds, slot \in Slots :
       DownWrap(h, kind, slot)
  \/ DownQueue
  \/ PoolBegin
  \/ \E b \in BlockIds : PoolFinalize(b)
  \/ PoolCallback
  \/ PoolEnd
  \/ \E race \in Races : DestructorBody(race)
  \/ \E race \in UnrefRaces : DestroyWrappers(race)
  \/ DropRuntime
  \/ \E race \in Races : Complete(race)

SpecDown == InitDown /\ [][NextDown]_vars

\* C19: once the interpreter is closed, the release callback and the
\* property handlers have been cleared and no registry slot a wrapper of
\* the context owned is still taken; the finalizers lua_close runs invoke
\* no callback; and a release callback that does run, on whatever thread,
\* finds the context it uses not yet in destruction.
C19_TeardownOrdering ==
  /\ L_ = "closed" =>
       /\ ~userdata_gc_callback
       /\ ~property_handlers
       /\ \A s \in Slots : registry[s] = 0
  /\ lastOp.op = "lua_close" => lastOp.fired = <<>>
  /\ lastOp.op = "callback" => lastOp.context = "constructed"

\* ------------------------------------------------------------ libraries

\* kLibFlags: the user-facing name of a standard library and its bit, in
\* the order of the bits (LUA_GLIBK is 1, each next one the double).
LibOrder == <<"base", "package", "coroutine", "debug", "io", "math", "os",
              "string", "table", "utf8">>
LibNames == {LibOrder[i] : i \in DOMAIN LibOrder}
kLibFlags ==
  [lib \in LibNames |->
     2 ^ ((CHOOSE i \in DOMAIN LibOrder : LibOrder[i] = lib) - 1)]

\* mask |= flag on ints of the width of the ten bits.
RECURSIVE BitOr(_, _)
BitOr(a, b) ==
  IF a = 0 THEN b
  ELSE IF b = 0 THEN a
  ELSE (IF a % 2 = 1 \/ b % 2 = 1 THEN 1 ELSE 0)
         + 2 * BitOr(a \div 2, b \div 2)

UnknownLibrary(lib) == <<"Unknown Lua library: '", lib, "'">>

\* LibraryMask: the names in order; the first unknown one throws.
RECURSIVE LibraryMaskFrom(_, _, _)
LibraryMaskFrom(libraries, i, mask) ==
  IF i > Len(libraries) THEN [mask |-> mask, thrown |-> NothingThrown]
  ELSE IF libraries[i] \notin DOMAIN kLibFlags
    THEN [mask |-> 0, thrown |-> UnknownLibrary(libraries[i])]
  ELSE LibraryMaskFrom(libraries, i + 1, BitOr(mask, kLibFlags[libraries[i]]))

LibraryMask(libraries) == LibraryMaskFrom(libraries, 1, 0)

AllLibraries == <<"base", "package", "coroutine", "table", "io", "os",
                  "string", "math", "utf8", "debug">>

\* A plausible slip: the safe preset is the full list.
SafeLibrariesAll == AllLibraries

SafeLibraries == <<"base", "package", "coroutine", "table", "string", "math",
                   "utf8">>

\* luaL_openselectedlibs(L, load, 0): the libraries whose bit is set in load
\* are opened, none is put into package.preload.
luaL_openselectedlibs(load) ==
  {lib \in LibNames : (load \div kLibFlags[lib]) % 2 = 1}

\* LuaRuntime() : luaL_newstate and InitState, no library.
LuaRuntimeBare == [runtime |-> BareRuntime, thrown |-> NothingThrown]

\* LuaRuntime(libraries) : luaL_newstate; unless the list is empty,
\* luaL_openselectedlibs of LibraryMask(libraries); InitState. An exception
\* of LibraryMask leaves the constructor, and no object exists.
LuaRuntimeOf(libraries) ==
  LET m == LibraryMask(libraries)
  IN IF libraries = <<>> THEN LuaRuntimeBare
     ELSE IF m.thrown # NothingThrown
       THEN [runtime |-> NoRuntime, thrown |-> m.thrown]
     ELSE [runtime |-> [made |-> TRUE,
                        libs |-> luaL_openselectedlibs(m.mask)],
           thrown |-> NothingThrown]

TypeError(text) == <<text>>
NotStrings == TypeError("libraries array must contain only strings")
NotPreset ==
  TypeError("libraries must be 'all', 'safe', or an array of library names")

\* The constructor of LuaContext up to the runtime it makes.
LuaContextRuntime(opts) ==
  CASE opts.kind \in {"absent", "no libraries"} -> LuaRuntimeBare
    [] opts.kind = "array" ->
         IF ~opts.strings THEN [runtime |-> NoRuntime, thrown |-> NotStrings]
         ELSE LuaRuntimeOf(opts.libraries)
    [] opts.kind = "preset" ->
         IF opts.preset = "all" THEN LuaRuntimeOf(AllLibraries)
         ELSE IF opts.preset = "safe" THEN LuaRuntimeOf(SafeLibraries)
         ELSE [runtime |-> NoRuntime, thrown |-> NotPreset]
    [] OTHER -> [runtime |-> NoRuntime, thrown |-> NotPreset]

\* The names a list of libraries is made of: the ten and one that is none.
ListNames == LibNames \cup {"fakename"}
RECURSIVE ListsOf(_)
ListsOf(n) ==
  IF n = 0 THEN {<<>>}
  ELSE ListsOf(n - 1) \cup
       {Append(l, x) : l \in {k \in ListsOf(n - 1) : Len(k) = n - 1},
                       x \in ListNames}
Lists == ListsOf(MaxLibs)

\* The second argument of new LuaContext.
Requests ==
  {NoOptions, [NoOptions EXCEPT !.kind = "no libraries"],
   [NoOptions EXCEPT !.kind = "number"]}
  \cup {[NoOptions EXCEPT !.kind = "preset", !.preset = p] :
          p \in {"all", "safe", "io"}}
  \cup {[NoOptions EXCEPT !.kind = "array", !.libraries = l, !.strings = st] :
          l \in Lists, st \in BOOLEAN}

\* The moment before the constructor runs.
InitLib ==
  /\ ContextConstructed
  /\ NoConversion
  /\ NoHostFunctions
  /\ EmptyStack
  /\ NoHandles
  /\ NoTeardown
  /\ NoUserdataEntries
  /\ NoTables
  /\ options \in Requests
  /\ options.strings \/ options.libraries # <<>>
  /\ runtime = NoRuntime
  /\ thrown = NothingThrown
  /\ lastOp = [op |-> "none", name |-> "none", type |-> "none"]

\* new LuaContext(callbacks, options)
NewLuaContext ==
  LET made == LuaContextRuntime(options)
  IN /\ lastOp.op = "none"
     /\ runtime' = made.runtime
     /\ thrown' = made.thrown
     /\ lastOp' = [op |-> "new", name |-> "none", type |-> "none"]
     /\ UNCHANGED <<refVars, coVars, asyncVars, libOthers, options>>

\* The globals the libraries bind: _G for base, and each other one its name.
GlobalOf(lib) == IF lib = "base" THEN "_G" ELSE lib
LibGlobals == {GlobalOf(lib) : lib \in LibNames}

\* execute_script("return type(<name>)"): type is a function of base; without
\* it the call is an error.
TypeOf(libs, name) ==
  IF "base" \notin libs THEN "error"
  ELSE IF \E lib \in libs : GlobalOf(lib) = name THEN "table" ELSE "nil"

ScriptTypeOf(name) ==
  /\ lastOp.op # "none"
  /\ runtime.made
  /\ lastOp' = [op |-> "type", name |-> name,
                type |-> TypeOf(runtime.libs, name)]
  /\ UNCHANGED <<refVars, coVars, asyncVars, libOthers, libVars>>

NextLib ==
  \/ NewLuaContext
  \/ \E name \in LibGlobals : ScriptTypeOf(name)

SpecLib == InitLib /\ [][NextLib]_vars

\* The members of a list.
Members(l) == {l[i] : i \in DOMAIN l}

\* C20: after construction the libraries opened are those asked for: the
\* seven of the safe preset, without io, os and debug, which a script of that
\* runtime finds nil; the members of an explicit list of known names; none
\* for an empty list or no option; and for a list with an unknown name there
\* is no runtime, and the error thrown names an unknown member of the list.
C20_LibraryBoundary ==
  lastOp.op # "none" =>
    /\ (options.kind = "preset" /\ options.preset = "safe") =>
         /\ runtime.made
         /\ runtime.libs = {"base", "package", "coroutine", "table", "string",
                            "math", "utf8"}
         /\ (lastOp.op = "type" /\ lastOp.name \in {"io", "os", "debug"}) =>
              lastOp.type = "nil"
    /\ (options.kind = "array" /\ options.strings
          /\ Members(options.libraries) \subseteq LibNames) =>
         /\ runtime.made
         /\ runtime.libs = Members(options.libraries)
         /\ thrown = NothingThrown
    /\ options.kind \in {"absent", "no libraries"} =>
         (runtime.made /\ runtime.libs = {})
    /\ (options.kind = "array" /\ options.strings
          /\ ~(Members(options.libraries) \subseteq LibNames)) =>
         /\ ~runtime.made
         /\ Len(thrown) = 3
         /\ thrown[1] = "Unknown Lua library: '"
         /\ thrown[2] \in Members(options.libraries) \ LibNames

\* The safe preset was asked for, and a script has found io to be nil.
C20_Witness ==
  /\ options.kind = "preset"
  /\ options.preset = "safe"
  /\ lastOp.op = "type"
  /\ lastOp.name = "io"
  /\ lastOp.type = "nil"
  /\ runtime.libs # {}

\* ------------------------------------------------------ property bridge

\* What the host's property accessor does when the object is reached.
Accessors == {"returns", "throws"}
PropValues == {1, 2}

NotReadable == "userdata is not readable"
NotWritable == "userdata is not writable"

\* The outcome of a property handler: the value it returns, the exception
\* it throws, whether it touched the host object, and the entries after it.
Handled(value, what, reached, entries) ==
  [value |-> value, what |-> what, reached |-> reached, entries |-> entries]

\* A plausible slip: the getter does not test `readable`.
PropertyGetterUnchecked(entries, ref_id, accessor) ==
  IF ~entries[ref_id].present
    THEN Handled(LuaValueNil, "none", FALSE, entries)
  ELSE IF accessor = "throws"
    THEN Handled(LuaValueNil, "what", TRUE, entries)
  ELSE Handled(FromInt64(entries[ref_id].object), "none", TRUE, entries)

\* The getter the constructor installs: find; absent -> nil; not readable ->
\* throw; object.Get(key), which throws when the host's accessor does.
PropertyGetter(entries, ref_id, accessor) ==
  IF ~entries[ref_id].present
    THEN Handled(LuaValueNil, "none", FALSE, entries)
  ELSE IF ~entries[ref_id].readable
    THEN Handled(LuaValueNil, NotReadable, FALSE, entries)
  ELSE IF accessor = "throws"
    THEN Handled(LuaValueNil, "what", TRUE, entries)
  ELSE Handled(FromInt64(entries[ref_id].object), "none", TRUE, entries)

\* The setter: find; absent -> return; not writable -> throw;
\* object.Set(key, CoreToNapi(value)).
PropertySetter(entries, ref_id, value, accessor) ==
  IF ~entries[ref_id].present
    THEN Handled(LuaValueNil, "none", FALSE, entries)
  ELSE IF ~entries[ref_id].writable
    THEN Handled(LuaValueNil, NotWritable, FALSE, entries)
  ELSE IF accessor = "throws"
    THEN Handled(LuaValueNil, "what", TRUE, entries)
  ELSE Handled(LuaValueNil, "none", TRUE,
               [entries EXCEPT ![ref_id].object = value.n])

\* What the script gets from `return obj.key` or `obj.key = v`: values or
\* the error lua_pcall caught, the handlers that ran, and the entries.
Indexed(result, values, error, invoked, reached, entries) ==
  [result |-> result, values |-> values, error |-> error,
   invoked |-> invoked, reached |-> reached, entries |-> entries]

\* The index event on a userdata block. Without __index in its metatable
\* the interpreter raises its own error; with it UserdataIndex runs:
\* a key that is no string yields nothing, no getter yields nil, and an
\* exception of the getter or of PushLuaValue becomes the error.
IndexEvent(block, key, handlers, entries, accessor) ==
  IF UserdataIndex(block) = {}
    THEN Indexed("error", <<>>,
                 HostError("attempt to index a userdata value", "none"),
                 {}, FALSE, entries)
  ELSE IF key # "string" THEN Indexed("values", <<>>, NoError, {}, FALSE,
                                      entries)
  ELSE IF ~handlers THEN Indexed("values", <<lua_nil>>, NoError, {}, FALSE,
                                 entries)
  ELSE LET g == PropertyGetter(entries, block.ref_id, accessor)
       IN IF g.what # "none"
            THEN Indexed("error", <<>>,
                         HostError("Error reading property", g.what),
                         UserdataIndex(block), g.reached, entries)
            ELSE Indexed("values", <<PushLuaValueTree(g.value, 0)>>, NoError,
                         UserdataIndex(block), g.reached, entries)

\* The newindex event: UserdataNewIndex converts the value and calls the
\* setter.
NewIndexEvent(block, key, v, handlers, entries, accessor) ==
  IF UserdataNewIndex(block) = {}
    THEN Indexed("error", <<>>,
                 HostError("attempt to index a userdata value", "none"),
                 {}, FALSE, entries)
  ELSE IF key # "string" \/ ~handlers
    THEN Indexed("values", <<>>, NoError, {}, FALSE, entries)
  ELSE LET r == PropertySetter(entries, block.ref_id,
                               ToLuaValueTree(lua_integer(v), 0), accessor)
       IN IF r.what # "none"
            THEN Indexed("error", <<>>,
                         HostError("Error writing property", r.what),
                         UserdataNewIndex(block), r.reached, entries)
            ELSE Indexed("values", <<>>, NoError, UserdataNewIndex(block),
                         r.reached, r.entries)

NoAccess == [op |-> "none", proxy |-> FALSE, readable |-> FALSE,
             writable |-> FALSE, key |-> "none", accessor |-> "none",
             before |-> 0, r |-> Indexed("none", <<>>, NoError, {}, FALSE,
                                         <<>>)]

InitProp ==
  /\ ContextConstructed
  /\ NoConversion
  /\ NoHostFunctions
  /\ EmptyStack
  /\ NoHandles
  /\ NoTeardown
  /\ DefaultLibraries
  /\ NoUserdataEntries
  /\ NoTables
  /\ lastOp = NoAccess

\* set_userdata(name, object, {readable, writable}): the id, the entry, and
\* a proxy block when one of the flags is set, a plain block otherwise.
SetUserdata(name, readable, writable, value) ==
  LET ref_id == next_userdata_id
      nb == NewBlock(blocks)
      b1 == [blocks EXCEPT ![nb] = [ref_id |-> ref_id,
                                    proxy |-> readable \/ writable,
                                    st |-> "live"]]
  IN /\ next_userdata_id <= MaxRefId
     /\ \E b \in BlockIds : blocks[b].st = "free"
     /\ next_userdata_id' = next_userdata_id + 1
     /\ js_userdata' = [js_userdata EXCEPT
                          ![ref_id] = [present |-> TRUE,
                                       readable |-> readable,
                                       writable |-> writable,
                                       object |-> value]]
     /\ blocks' = Unbind(b1, globals, name)
     /\ globals' = [globals EXCEPT ![name] = nb]
     /\ userdata_ref_counts' =
          IncrementUserdataRefCount(userdata_ref_counts, ref_id)
     /\ lastOp' = [NoAccess EXCEPT !.op = "set_userdata"]
     /\ UNCHANGED <<userdata_gc_callback, released, host_handles, coVars,
                    is_busy, async_mode, worker, host_functions, wrappers,
                    fault, propOthers>>

\* execute_script("return <name>[key]")
ScriptIndex(name, key, accessor) ==
  LET block == blocks[globals[name]]
      r == IndexEvent(block, key, property_handlers, js_userdata, accessor)
  IN /\ globals[name] # 0
     /\ lastOp' = [op |-> "index", proxy |-> block.proxy,
                   readable |-> js_userdata[block.ref_id].readable,
                   writable |-> js_userdata[block.ref_id].writable,
                   key |-> key, accessor |-> accessor,
                   before |-> js_userdata[block.ref_id].object,
                   r |-> [r EXCEPT !.entries = <<>>]]
     /\ UNCHANGED <<refVars, coVars, asyncVars, propOthers, propVars>>

\* execute_script("<name>[key] = v")
ScriptNewIndex(name, key, v, accessor) ==
  LET block == blocks[globals[name]]
      r == NewIndexEvent(block, key, v, property_handlers, js_userdata,
                         accessor)
  IN /\ globals[name] # 0
     /\ js_userdata' = r.entries
     /\ lastOp' = [op |-> "newindex", proxy |-> block.proxy,
                   readable |-> js_userdata[block.ref_id].readable,
                   writable |-> js_userdata[block.ref_id].writable,
                   key |-> key, accessor |-> accessor,
                   before |-> js_userdata[block.ref_id].object,
                   r |-> [r EXCEPT !.entries = <<>>]]
     /\ UNCHANGED <<refVars, coVars, asyncVars, propOthers>>

Keys == {"string", "boolean"}

NextProp ==
  \/ \E name \in Names, readable, writable \in BOOLEAN, value \in PropValues :
       SetUserdata(name, readable, writable, value)
  \/ \E name \in Names, key \in Keys, accessor \in Accessors :
       ScriptIndex(name, key, accessor)
  \/ \E name \in Names, key \in Keys, v \in PropValues,
        accessor \in Accessors :
       ScriptNewIndex(name, key, v, accessor)

SpecProp == InitProp /\ [][NextProp]_vars

\* C21: a read of obj.key reaches the host object only through a readable
\* proxy and a write only through a writable one, and only then does the
\* object change; a read of a proxy that is not readable and a write to one
\* that is not writable raise the not-readable and the not-writable error;
\* a handle that is no proxy raises an error and runs neither handler; and
\* an accessor that throws raises an error that carries its message.
C21_PropertyGating ==
     (lastOp.op \in {"index", "newindex"} /\ lastOp.key = "string") =>
       /\ lastOp.r.reached =>
            /\ lastOp.proxy
            /\ lastOp.op = "index" => lastOp.readable
            /\ lastOp.op = "newindex" => lastOp.writable
       /\ (lastOp.op = "index" /\ lastOp.proxy /\ ~lastOp.readable) =>
            /\ lastOp.r.result = "error"
            /\ lastOp.r.error = HostError("Error reading property",
                                          NotReadable)
       /\ (lastOp.op = "newindex" /\ lastOp.proxy /\ ~lastOp.writable) =>
            /\ lastOp.r.result = "error"
            /\ lastOp.r.error = HostError("Error writing property",
                                          NotWritable)
       /\ ~lastOp.proxy =>
            /\ lastOp.r.result = "error"
            /\ lastOp.r.invoked = {}
       /\ (lastOp.r.reached /\ lastOp.accessor = "throws") =>
            /\ lastOp.r.result = "error"
            /\ lastOp.r.error.what = "what"
       /\ (lastOp.op = "index" /\ lastOp.r.result = "values") =>
            lastOp.r.values = <<lua_integer(lastOp.before)>>

\* A read of a proxy that is writable only has raised the error.
C21_Witness ==
  /\ lastOp.op = "index"
  /\ lastOp.key = "string"
  /\ lastOp.proxy
  /\ lastOp.writable
  /\ ~lastOp.readable
  /\ lastOp.r.result = "error"

\* ------------------------------------------------- metatables of globals

MetaKeys == {"__index", "__call"}
\* MetatableEntry: a host function (its value is unused) or a value.
MetatableEntries ==
  [key : MetaKeys, is_function : {TRUE}, value : {0}]
    \cup [key : MetaKeys, is_function : {FALSE}, value : ArgNests]
\* Lists of as many entries as there are keys, so that a key can repeat.
EntryLists ==
  UNION {[1..n -> MetatableEntries] : n \in 0..Cardinality(MetaKeys)}
GlobalKinds == {"nil", "number", "table"}
metaOthers == <<convVars, hostVars, handleVars, downVars, libVars, propVars>>

DoesNotExist == "does not exist"
IsNotATable == "is not a table"

\* lua_setfield(L_, -2, key) on the metatable under construction.
SetField(fields, e) ==
  {f \in fields : f[1] # e.key}
    \cup {<<e.key, IF e.is_function THEN "function" ELSE "value">>}

RECURSIVE SetFields(_, _)
SetFields(fields, entries) ==
  IF entries = <<>> THEN fields
  ELSE SetFields(SetField(fields, Head(entries)), Tail(entries))

\* A plausible slip: the entries are stored into the metatable the table
\* already has.
MetatableOfMerged(old, entries) ==
  [set |-> TRUE, fields |-> SetFields(old.fields, entries)]

\* lua_newtable, the loop over the entries, lua_setmetatable: the new
\* metatable holds the entries of this call only.
MetatableOf(old, entries) ==
  [set |-> TRUE, fields |-> SetFields({}, entries)]

\* An entry whose value PushLuaValue refuses.
Refused(entries) ==
  \E i \in DOMAIN entries :
    ~entries[i].is_function /\ ~PushLuaValue(entries[i].value, 0).ok

\* The most slots an entry needs above the target and the metatable.
EntrySlots(entries) ==
  LET need(e) == IF e.is_function THEN 1 ELSE PushLuaValueSlots(e.value)
      S == {need(entries[i]) : i \in DOMAIN entries} \cup {0}
  IN CHOOSE m \in S : \A x \in S : x <= m

\* SetGlobalMetatable(name, entries): what it throws, the depth it leaves
\* the main stack at, and the globals after it.
SetGlobalMetatable(top, globs, name, entries, room) ==
  LET target == globs[name]
      done(out, error, after) ==
        [top |-> out.top, result |-> out.result, error |-> error,
         tables |-> after]
  IN IF target.kind = "nil"
       THEN {done(StackGuard(top, top + 1, "threw"), DoesNotExist, globs)}
     ELSE IF target.kind # "table"
       THEN {done(StackGuard(top, top + 1, "threw"), IsNotATable, globs)}
     ELSE {done(out,
                IF out.result = "threw" THEN "nesting depth" ELSE "none",
                IF out.result = "ok"
                  THEN [globs EXCEPT ![name].metatable =
                          MetatableOf(target.metatable, entries)]
                  ELSE globs) :
           out \in Guarded(top, 2, EntrySlots(entries), ~Refused(entries),
                           room)}

InitMeta ==
  /\ ContextConstructed
  /\ NoConversion
  /\ NoHostFunctions
  /\ EmptyStack
  /\ NoHandles
  /\ NoTeardown
  /\ DefaultLibraries
  /\ NoUserdataEntries
  /\ NoTables
  /\ lastOp = [op |-> "none"]

\* execute_script("<name> = nil"), "= 1" or "= {}": a new table has no
\* metatable.
AssignGlobal(name, kind) ==
  /\ ~fault
  /\ global_table' = [global_table EXCEPT
                        ![name] = [kind |-> kind, metatable |-> NoMetatable]]
  /\ lastOp' = [op |-> "assign"]
  /\ UNCHANGED <<refVars, coVars, asyncVars, stackVars, tables,
                 table_global, metaOthers>>

InstallMetatable(name, entries, room) ==
  /\ ~fault
  /\ \E r \in SetGlobalMetatable(stack_top, global_table, name, entries,
                                 room) :
       /\ stack_top' = r.top
       /\ global_table' = r.tables
       /\ fault' = (r.result = "fault")
       /\ lastOp' = [op |-> "SetGlobalMetatable", name |-> name,
                     entries |-> entries, result |-> r.result,
                     error |-> r.error, top |-> stack_top,
                     before |-> global_table]
  /\ UNCHANGED <<refVars, coVars, is_busy, async_mode, worker,
                 host_functions, wrappers, next_userdata_id, tables,
                 table_global, metaOthers>>

NextMeta ==
  \/ \E name \in Names, kind \in GlobalKinds : AssignGlobal(name, kind)
  \/ \E name \in Names, entries \in EntryLists, room \in StackRooms :
       InstallMetatable(name, entries, room)

SpecMeta == InitMeta /\ [][NextMeta]_vars

\* C22: SetGlobalMetatable on an unbound name throws "does not exist" and
\* on a global that is no table "is not a table"; either way no global's
\* metatable changes and the main stack is as deep as before. On a table,
\* with entries that can be pushed, it returns normally and the table's
\* metatable holds the entries of this call alone, whatever it held before.
C22_MetatableInstallation ==
  lastOp.op = "SetGlobalMetatable" =>
    LET target == lastOp.before[lastOp.name]
    IN /\ target.kind = "nil" =>
            /\ lastOp.result = "threw"
            /\ lastOp.error = DoesNotExist
       /\ target.kind = "number" =>
            /\ lastOp.result = "threw"
            /\ lastOp.error = IsNotATable
       /\ target.kind # "table" =>
            /\ global_table = lastOp.before
            /\ stack_top = lastOp.top
       /\ (target.kind = "table" /\ ~Refused(lastOp.entries)) =>
            /\ lastOp.result = "ok"
            /\ stack_top = lastOp.top
            /\ global_table[lastOp.name].metatable.set
            /\ global_table[lastOp.name].metatable.fields =
                 {<<lastOp.entries[i].key,
                    IF lastOp.entries[i].is_function THEN "function"
                                                     ELSE "value">> :
                  i \in {j \in DOMAIN lastOp.entries :
                           \A k \in DOMAIN lastOp.entries :
                             (k > j) =>
                               lastOp.entries[k].key # lastOp.entries[j].key}}
            /\ \A n \in Names \ {lastOp.name} :
                 global_table[n] = lastOp.before[n]

\* A second installation has replaced a metatable that held another key.
C22_Witness ==
  /\ lastOp.op = "SetGlobalMetatable"
  /\ lastOp.result = "ok"
  /\ lastOp.before[lastOp.name].metatable.set
  /\ \E f \in lastOp.before[lastOp.name].metatable.fields :
       \A g \in global_table[lastOp.name].metatable.fields : g[1] # f[1]

\* The call on an unbound name has thrown.
C22_WitnessUnbound ==
  /\ lastOp.op = "SetGlobalMetatable"
  /\ lastOp.before[lastOp.name].kind = "nil"
  /\ lastOp.result = "threw"

\* ------------------------------------------- failures at the host boundary

\* What the host caller of an N-API method sees of a core operation that
\* ended in `out`: an exception no handler of the method catches leaves the
\* method ("escaped"); `caught` says whether the method has a handler.
Seen(out, caught) ==
  Ended(out.top,
        CASE out.result = "threw" -> IF caught THEN "error" ELSE "escaped"
          [] out.result \in {"ok", "bytecode", "thread"} -> "values"
          [] OTHER -> out.result)

\* LuaFunctionCallbackStatic: NapiToCoreInstance of the arguments in a try,
\* then CallFunction and the conversion of its results outside any try.
LuaFunctionCallback(top, arg, chunk, room) ==
  IF arg > kMaxDepth THEN {Ended(top, "error")}
  ELSE {Seen(out, FALSE) : out \in CallFunctionStack(top, arg, chunk, room)}

\* LuaContext::GetGlobal: runtime->GetGlobal and CoreToNapi, no try.
LuaContextGetGlobal(top, nest, room) ==
  {Seen(out, FALSE) : out \in GetGlobalStack(top, nest, room)}

\* LuaContext::SetGlobal: NapiToCoreInstance and runtime->SetGlobal in a
\* try that turns std::exception into a JS error.
LuaContextSetGlobal(top, v, room) ==
  IF v > kMaxDepth THEN {Ended(top, "error")}
  ELSE {Seen(out, TRUE) : out \in SetGlobalStack(top, v, room)}

Crossing(op, arg, chunk, room, out) ==
  /\ ~fault
  /\ stack_top <= MaxSlack
  /\ stack_top' = out.top
  /\ fault' = (out.result = "fault")
  /\ lastOp' = [op |-> op, arg |-> arg, chunk |-> chunk, room |-> room,
                result |-> out.result, before |-> stack_top]
  /\ UNCHANGED <<refVars, coVars, is_busy, async_mode, worker,
                 host_functions, wrappers, next_userdata_id, stackOthers>>

NoChunk == [kind |-> "none", nest |-> 0]

InitBoundary ==
  /\ ContextConstructed
  /\ NoConversion
  /\ NoHostFunctions
  /\ EmptyStack
  /\ NoHandles
  /\ NoTeardown
  /\ DefaultLibraries
  /\ NoUserdataEntries
  /\ NoTables
  /\ lastOp = [op |-> "none", arg |-> 0, chunk |-> NoChunk, room |-> 0,
               result |-> "none", before |-> 0]

\* runtime.CallFunction(f, {arg}) by a host that uses the core directly.
CoreCallFunction ==
  \E arg \in ArgNests, chunk \in Chunks, room \in StackRooms :
    \E out \in CallFunctionStack(stack_top, arg, chunk, room) :
      Crossing("CallFunction", arg, chunk, room, out)

\* f(arg) on the JS wrapper of an embedded function.
CallWrapper ==
  \E arg \in ArgNests, chunk \in Chunks, room \in StackRooms :
    \E out \in LuaFunctionCallback(stack_top, arg, chunk, room) :
      Crossing("call", arg, chunk, room, out)

\* ctx.get_global(name), the global holding a value nested `nest` deep.
CallGetGlobal ==
  \E nest \in ArgNests, room \in StackRooms :
    \E out \in LuaContextGetGlobal(stack_top, nest, room) :
      Crossing("get_global", nest, NoChunk, room, out)

\* ctx.set_global(name, v)
CallSetGlobal ==
  \E v \in ArgNests, room \in StackRooms :
    \E out \in LuaContextSetGlobal(stack_top, v, room) :
      Crossing("set_global", v, NoChunk, room, out)

NextBoundary ==
  \/ CoreCallFunction
  \/ CallWrapper
  \/ CallGetGlobal
  \/ CallSetGlobal

SpecBoundary == InitBoundary /\ [][NextBoundary]_vars

\* C23: no exception leaves a call across the boundary: CallFunction
\* returns result values or an error message, also for an argument nested
\* too deep, and get_global and set_global of a value nested too deep
\* report an error to the caller.
C23_NoRawFault ==
  /\ lastOp.op = "CallFunction" => lastOp.result \in {"values", "error"}
  /\ lastOp.op = "call" => lastOp.result \in {"values", "error"}
  /\ (lastOp.op \in {"get_global", "set_global"}
        /\ lastOp.arg > kMaxDepth) =>
       lastOp.result = "error"

\* ------------------------------------------ the results of a host function

\* A LuaPtr that holds no value: what a host function returns for absence.
NullPtr == [kind |-> "null"]

\* PushLuaValue(L, value) at depth 0: a null pointer pushes nil.
PushLuaPtr(value) ==
  IF value = NullPtr THEN lua_nil ELSE PushLuaValueTree(value, 0)

\* The tail of LuaCallHostFunction: PushLuaValue(L, resultHolder) and
\* `return 1`, so the caller gets the one value on top of the stack.
HostFunctionResults(resultHolder) ==
  LET pushed == PushLuaPtr(resultHolder)
  IN IF pushed = DepthError
       THEN [result |-> "error", nresults |-> 0, values |-> <<>>]
       ELSE [result |-> "values", nresults |-> 1, values |-> <<pushed>>]

InitResult ==
  /\ ContextConstructed
  /\ NoHostFunctions
  /\ EmptyStack
  /\ NoHandles
  /\ NoTeardown
  /\ DefaultLibraries
  /\ NoUserdataEntries
  /\ NoTables
  /\ lastOp = NoCall
  /\ conv \in {[op |-> "pending", side |-> "returned", input |-> v] :
                 v \in HostValues \cup {NullPtr}}

\* A script calls a host function that returns conv.input.
HostFunctionReturns ==
  /\ conv.op = "pending" /\ conv.side = "returned"
  /\ conv' = [op |-> "LuaCallHostFunction", input |-> conv.input,
              output |-> HostFunctionResults(conv.input)]
  /\ UNCHANGED <<refVars, coVars, asyncVars, lastOp, convOthers>>

NextResult == HostFunctionReturns

SpecResult == InitResult /\ [][NextResult]_vars

\* C24: a host function that returns a value gives the embedded caller
\* exactly one result, and one that returns no value gives it no results.
C24_ResultCount ==
  conv.op = "LuaCallHostFunction" =>
    /\ conv.input # NullPtr => conv.output.nresults = 1
    /\ conv.input = NullPtr => conv.output.nresults = 0

\* ------------------------------------------------ tables kept by reference

Metatables == {"none", "empty", "newindex"}
tableOthers == <<convVars, hostVars, stackVars, downVars, libVars, propVars>>

\* A plausible slip: a metatable without entries counts as none.
lua_getmetatableNonEmpty(t) == t.metatable \notin {"none", "empty"}

\* lua_getmetatable(L, index): whether the table has a metatable.
lua_getmetatable(t) == t.metatable # "none"

\* The LUA_TTABLE case of ToLuaValue on the table `obj`: a table with a
\* metatable is anchored in the free slot luaL_ref takes and comes back as a
\* LuaTableRef; a plain one is walked key by key and copied.
ToLuaValueTable(all, obj, slot) ==
  IF lua_getmetatable(all[obj])
    THEN [ref |-> slot, handle |-> NewHandle("table", slot, obj),
          visited |-> {}]
    ELSE [ref |-> LUA_NOREF, handle |-> NoHandle,
          visited |-> {k \in TableFields : all[obj].fields[k] # 0}]

\* lua_setfield(L, -2, key) with the table and the value on the stack: a
\* key the table lacks goes to __newindex when the metatable has one (a
\* function that notes the call and stores nothing), every other write is
\* stored.
lua_setfield(all, obj, key, v) ==
  IF all[obj].metatable = "newindex" /\ all[obj].fields[key] = 0
    THEN [tables |-> all, fired |-> TRUE]
    ELSE [tables |-> [all EXCEPT ![obj].fields[key] = v], fired |-> FALSE]

NoTableOp == [op |-> "none", obj |-> 0, h |-> 0, name |-> "none",
              key |-> "none", v |-> 0, fired |-> FALSE, visited |-> {},
              taken |-> 0, before |-> <<>>]

Taken(reg) == Cardinality({s \in Slots : reg[s] # 0})

InitTable ==
  /\ ContextConstructed
  /\ NoConversion
  /\ NoHostFunctions
  /\ EmptyStack
  /\ NoHandles
  /\ NoTeardown
  /\ DefaultLibraries
  /\ NoUserdataEntries
  /\ NoTables
  /\ lastOp = NoTableOp

\* execute_script("<name> = {}") or "<name> = setmetatable({}, mt)", on a
\* name that is unbound.
ScriptNewTable(name, mt) ==
  /\ next_object <= MaxObjects
  /\ table_global[name] = 0
  /\ tables' = [tables EXCEPT ![next_object] =
                  [NoTable EXCEPT !.made = TRUE, !.metatable = mt]]
  /\ table_global' = [table_global EXCEPT ![name] = next_object]
  /\ next_object' = next_object + 1
  /\ lastOp' = [NoTableOp EXCEPT !.op = "new", !.name = name]
  /\ UNCHANGED <<refVars, coVars, asyncVars, handles, registry,
                 global_table, tableOthers>>

\* GetGlobal(name) on a global bound to a table the host holds no handle
\* of: lua_getglobal, ToLuaValue.
GetGlobalTable(name, h, slot) ==
  LET obj == table_global[name]
      r == ToLuaValueTable(tables, obj, slot)
  IN /\ obj # 0
     /\ \A g \in HandleIds : handles[g].obj # obj
     /\ handles[h] = NoHandle
     /\ \A g \in HandleIds : g < h => handles[g] # NoHandle
     /\ registry[slot] = 0
     /\ registry' = IF r.ref = LUA_NOREF THEN registry
                    ELSE [registry EXCEPT ![slot] = obj]
     /\ handles' = [handles EXCEPT ![h] = r.handle]
     /\ lastOp' = [NoTableOp EXCEPT !.op = "GetGlobal", !.name = name,
                     !.obj = obj, !.h = h, !.visited = r.visited,
                     !.taken = Taken(registry), !.before = tables]
     /\ UNCHANGED <<refVars, coVars, asyncVars, next_object, tables,
                    table_global, global_table, tableOthers>>

\* SetGlobal(name, value) with a LuaTableRef: PushLuaValue is
\* lua_rawgeti(L, LUA_REGISTRYINDEX, ref), then lua_setglobal.
SetGlobalTable(name, h) ==
  /\ handles[h].kind = "table"
  /\ table_global' = [table_global EXCEPT
                        ![name] = Dereference(registry, handles[h])]
  /\ lastOp' = [NoTableOp EXCEPT !.op = "SetGlobal", !.name = name,
                  !.h = h, !.obj = handles[h].obj, !.before = tables]
  /\ UNCHANGED <<refVars, coVars, asyncVars, handleVars, tables,
                 global_table, tableOthers>>

\* SetTableField(ref, key, value): lua_rawgeti, PushLuaValue, lua_setfield.
SetTableField(h, key, v) ==
  LET obj == Dereference(registry, handles[h])
      r == lua_setfield(tables, obj, key, v)
  IN /\ handles[h].kind = "table"
     /\ obj # 0
     /\ tables' = r.tables
     /\ lastOp' = [NoTableOp EXCEPT !.op = "SetTableField", !.h = h,
                     !.obj = obj, !.key = key, !.v = v,
                     !.fired = r.fired, !.before = tables]
     /\ UNCHANGED <<refVars, coVars, asyncVars, handleVars, table_global,
                    global_table, tableOthers>>

\* execute_script("<name>[key] = v")
ScriptSetField(name, key, v) ==
  LET obj == table_global[name]
      r == lua_setfield(tables, obj, key, v)
  IN /\ obj # 0
     /\ tables' = r.tables
     /\ lastOp' = [NoTableOp EXCEPT !.op = "script write", !.name = name,
                     !.obj = obj, !.key = key, !.v = v,
                     !.fired = r.fired, !.before = tables]
     /\ UNCHANGED <<refVars, coVars, asyncVars, handleVars, table_global,
                    global_table, tableOthers>>

NextTable ==
  \/ \E name \in Names, mt \in Metatables : ScriptNewTable(name, mt)
  \/ \E name \in Names, h \in HandleIds, slot \in Slots :
       GetGlobalTable(name, h, slot)
  \/ \E name \in Names, h \in HandleIds : SetGlobalTable(name, h)
  \/ \E h \in HandleIds, key \in TableFields, v \in PropValues :
       SetTableField(h, key, v)
  \/ \E name \in Names, key \in TableFields, v \in PropValues :
       ScriptSetField(name, key, v)

SpecTable == InitTable /\ [][NextTable]_vars

\* The globals a handle's table is bound to, and the handles of a global's
\* table.
SameTable(h, n) ==
  /\ handles[h].kind = "table"
  /\ table_global[n] # 0
  /\ Dereference(registry, handles[h]) = table_global[n]

\* C25: ToLuaValue of a table that has a metatable, an empty one included,
\* takes exactly one registry slot and returns a LuaTableRef to the table
\* without visiting a field or changing a table. PushLuaValue of the
\* handle binds the very table the handle was made for, metatable and
\* fields as they were. A write through the handle or through a global
\* bound to the table changes that one table, so both see it, and a write
\* of a new key to a table with __newindex runs __newindex on either path.
C25_ReferencePreservation ==
  /\ (lastOp.op = "GetGlobal"
        /\ lastOp.before[lastOp.obj].metatable # "none") =>
       /\ Taken(registry) = lastOp.taken + 1
       /\ handles[lastOp.h].kind = "table"
       /\ registry[handles[lastOp.h].ref] = lastOp.obj
       /\ lastOp.visited = {}
       /\ tables = lastOp.before
  /\ lastOp.op = "SetGlobal" =>
       /\ table_global[lastOp.name] = lastOp.obj
       /\ tables = lastOp.before
       /\ SameTable(lastOp.h, lastOp.name)
  /\ lastOp.op \in {"SetTableField", "script write"} =>
       /\ \A o \in ObjectIds \ {lastOp.obj} : tables[o] = lastOp.before[o]
       /\ lastOp.fired =
            (lastOp.before[lastOp.obj].metatable = "newindex"
               /\ lastOp.before[lastOp.obj].fields[lastOp.key] = 0)
       /\ ~lastOp.fired =>
            /\ \A h \in HandleIds :
                 Dereference(registry, handles[h]) = lastOp.obj =>
                   tables[Dereference(registry, handles[h])]
                     .fields[lastOp.key] = lastOp.v
            /\ \A n \in Names :
                 table_global[n] = lastOp.obj =>
                   tables[table_global[n]].fields[lastOp.key] = lastOp.v

\* A write through the handle of a table with an empty metatable is seen
\* through a global that PushLuaValue of the handle has bound.
C25_Witness ==
  /\ lastOp.op = "SetTableField"
  /\ ~lastOp.fired
  /\ tables[lastOp.obj].metatable = "empty"
  /\ \E n \in Names :
       /\ SameTable(lastOp.h, n)
       /\ tables[table_global[n]].fields[lastOp.key] = lastOp.v

\* ------------------------------------------- counters and un-finalized blocks

\* ToLuaValue of a userdata a library made: lua_pushvalue, luaL_ref, and
\* LuaUserdataRef(-1, L, true, ref). One opaque handle is followed, in
\* the first slot.
OpaqueToValue(h, slot) ==
  /\ \A g \in HandleIds : handles[g] = NoHandle
  /\ \A g \in HandleIds : h <= g
  /\ \A t \in Slots : slot <= t
  /\ Allocate(h, "userdata", slot)

\* PushLuaValue of an opaque LuaUserdataRef: lua_rawgeti of its slot.
OpaquePush(h) ==
  /\ handles[h].opaque
  /\ Use(h)

\* release() of an opaque LuaUserdataRef.
OpaqueRelease(h) ==
  /\ handles[h].opaque
  /\ Release(h)

InitBalance == InitRefCount

NextBalance ==
  \/ \E name \in Names, ref_id \in RefIds, G \in SUBSET BlockIds :
       CreateUserdataGlobal(name, ref_id, G)
  \/ \E name \in Names, ref_id \in RefIds, G \in SUBSET BlockIds :
       CreateProxyUserdataGlobal(name, ref_id, G)
  \/ \E name \in Names : GetGlobalUserdata(name)
  \/ \E name \in Names, h \in host_handles, G \in SUBSET BlockIds :
       SetGlobalUserdata(name, h, G)
  \/ \E name \in Names : ScriptAssignNil(name)
  \/ \E b \in BlockIds : Collect(b)
  \/ \E h \in HandleIds, slot \in Slots : OpaqueToValue(h, slot)
  \/ \E h \in HandleIds : OpaquePush(h)
  \/ \E h \in HandleIds : OpaqueRelease(h)

SpecBalance == InitBalance /\ [][NextBalance]_vars

\* C26: between operations the counter stored for an id (none counts as
\* zero) is the number of blocks of that id whose finalizer has not run;
\* and ToLuaValue of a userdata of the host and every operation on an
\* opaque handle leave every counter as it was.
C26_BalancedFinalizers ==
  /\ [](\A id \in RefIds :
          Count(userdata_ref_counts, id)
            = Cardinality(Unfinalized(blocks, id)))
  /\ [][lastOp'.op \in {"GetGlobal", "allocate", "use", "release"} =>
          userdata_ref_counts' = userdata_ref_counts]_vars

\* A handle has been pushed back for an id that has two blocks, one of
\* them unreachable, and the counter is two.
C26_Witness ==
  /\ lastOp.op = "SetGlobal"
  /\ Count(userdata_ref_counts, lastOp.id) = 2
  /\ \E b \in Unfinalized(blocks, lastOp.id) : blocks[b].st = "garbage"

\* ------------------------------------------------------ the keys of a Map

\* Tables whose keys are integers and strings, among them the integer 1
\* and the string "1", in every order lua_next can enumerate them.
MapKeys == {IntKey(n) : n \in 1..MaxKey} \cup {StrKey("1"), StrKey("x")}
MapTables ==
  UNION {{lua_table(o, [p \in DOMAIN o |-> ValueUnder(o[p])]) :
            o \in Enumerations(K)} : K \in SUBSET MapKeys}

InitMap ==
  /\ ContextConstructed
  /\ NoHostFunctions
  /\ EmptyStack
  /\ NoHandles
  /\ NoTeardown
  /\ DefaultLibraries
  /\ NoUserdataEntries
  /\ NoTables
  /\ lastOp = NoCall
  /\ conv \in {[op |-> "pending", side |-> "embedded", input |-> t] :
                 t \in MapTables}

NextMap == ConvertToValue

SpecMap == InitMap /\ [][NextMap]_vars

\* C27: when ToLuaValue turns a table into a Map, every integer or string
\* key of the table is in the Map under its decimal or own spelling with
\* the value the table holds under it, and the Map has as many entries as
\* the table has such keys.
C27_MapKeepsKeys ==
  (conv.op = "ToLuaValue" /\ conv.output.kind = "map") =>
    LET t == conv.input
        ps == Emplaced(t.order)
    IN /\ Cardinality(DOMAIN conv.output.fields) = Cardinality(ps)
       /\ \A p \in ps :
            /\ lua_tostring(t.order[p]) \in DOMAIN conv.output.fields
            /\ conv.output.fields[lua_tostring(t.order[p])]
                 = ToLuaValueTree(t.val[p], 1)

\* ------------------------------------------------ the busy and async flags

\* C28: is_busy_ is set exactly while a worker is queued, executing or
\* waiting for its completion callback; async_mode_ is set only while a
\* worker is inside Execute, hence only while is_busy_ is set, and is clear
\* once the completion callback of an execution has run; and an async start
\* refused for its argument leaves is_busy_ as it was.
C28_FlagInvariant ==
  /\ [](~fault =>
          /\ is_busy <=> InFlight # {}
          /\ async_mode => \E w \in WorkerIds : worker[w].pc = "running"
          /\ async_mode => is_busy
          /\ lastOp.op \in {"OnOK", "OnError"} => ~async_mode)
  /\ [][(lastOp'.op \in {"execute_script_async", "execute_file_async"}
           /\ lastOp'.result = "typeerror") => is_busy' = is_busy]_vars

\* -------------------------------------------- one release per host object

\* set_userdata(name, object, options): the id is next_userdata_id_++, so
\* no id is handed out twice; then the block, as in CreateUserdataGlobal or
\* CreateProxyUserdataGlobal.
SetUserdataOnce(name, proxy, G) ==
  /\ next_userdata_id <= MaxRefId
  /\ CreateUserdataBlock(name, next_userdata_id, proxy, G)
  /\ next_userdata_id' = next_userdata_id + 1
  /\ lastOp' = [op |-> "set_userdata", id |-> next_userdata_id,
                before |-> 0]
  /\ UNCHANGED <<coVars, is_busy, async_mode, worker, host_functions,
                 wrappers, fault>>

InitRelease == InitRefCount

NextRelease ==
  \/ \E name \in Names, proxy \in BOOLEAN, G \in SUBSET BlockIds :
       SetUserdataOnce(name, proxy, G)
  \/ \E name \in Names : GetGlobalUserdata(name)
  \/ \E name \in Names, h \in host_handles, G \in SUBSET BlockIds :
       SetGlobalUserdata(name, h, G)
  \/ \E name \in Names : ScriptAssignNil(name)
  \/ \E b \in BlockIds : Collect(b)

SpecRelease == InitRelease /\ [][NextRelease]_vars

\* C29: the release callback runs at most once for an id, and once it has
\* run no block of that id is left whose finalizer has not run.
C29_SingleRelease ==
  \A id \in RefIds :
    /\ released[id] <= 1
    /\ released[id] > 0 => Unfinalized(blocks, id) = {}

\* ------------------------------------------- the status after a Resume

\* C30: right after a ResumeCoroutine, GetCoroutineStatus of the thread is
\* the status in the result of that call, and a call whose arguments could
\* not be pushed leaves the coroutine's stack as deep as it found it.
C30_ResumeStatusAgreement ==
  [][lastOp'.op = "Resume" =>
       /\ GetCoroutineStatus(thread') = lastResult'.status
       /\ ~lastResult'.argsOk => thread'.top = thread.top]_vars

====
